---- MODULE Spec2Model ----
(***************************************************************************)
(* Model of the minigem-telemetry ingest service: the event normalizer     *)
(* and validator (ingest/src/validate.ts), the geo resolver and the POST   *)
(* /t handler, in its TypeScript source (ingest/src/server.ts) and in its  *)
(* shipped build (ingest/dist/server.js), and the Store insert (db.js).    *)
(*                                                                         *)
(* JavaScript values are records [k, s, n]: k is the type tag, s the text  *)
(* of a string, n the magnitude of a finite number.  TLC integers are 32   *)
(* bits wide, so timestamps are counted in units of 10^6 ms: the source's  *)
(* 1e12 threshold is MsThreshold = 10^6 units, and x1000 stays x1000.      *)
(***************************************************************************)
EXTENDS Integers, Sequences, FiniteSets, TLC

VARIABLES probe, geoProbe, dbOn, geoLoaded, store, sink, served, last, seen, stats,
          inflight

vars ==
  <<probe, geoProbe, dbOn, geoLoaded, store, sink, served, last, seen, stats, inflight>>

---------------------------------------------------------------------------
(* JavaScript values *)

Undef == [k |-> "undef", s |-> "", n |-> 0]
Null == [k |-> "null", s |-> "", n |-> 0]
Str(x) == [k |-> "str", s |-> x, n |-> 0]
Num(x) == [k |-> "num", s |-> "", n |-> x]
NaN == [k |-> "nan", s |-> "", n |-> 0]
PosInf == [k |-> "inf", s |-> "", n |-> 0]
NegInf == [k |-> "ninf", s |-> "", n |-> 0]
\* a finite double v with v * 1000 below -Number.MAX_VALUE, such as -1e308
NegHuge == [k |-> "neghuge", s |-> "", n |-> 0]
Bool(b) == [k |-> "bool", s |-> "", n |-> IF b THEN 1 ELSE 0]

\* typeof v === 'string'
IsString(v) == v.k = "str"

\* typeof v === 'number'
IsNumber(v) == v.k \in {"num", "nan", "inf", "ninf", "neghuge"}

\* isFinite(v), for v of type number
IsFinite(v) == v.k \in {"num", "neghuge"}

\* Boolean(v): the falsy values are undefined, null, '', 0, NaN and false
Truthy(v) ==
  CASE v.k = "str" -> v.s # ""
    [] v.k = "num" -> v.n # 0
    [] v.k = "bool" -> v.n = 1
    [] v.k \in {"inf", "ninf", "neghuge"} -> TRUE
    [] OTHER -> FALSE

---------------------------------------------------------------------------
(* Strings *)

CharAt(s, i) == SubSeq(s, i, i)

StartsWith(s, p) == Len(s) >= Len(p) /\ SubSeq(s, 1, Len(p)) = p

DigitChars == {"0", "1", "2", "3", "4", "5", "6", "7", "8", "9"}

DigitVal(c) ==
  CASE c = "0" -> 0 [] c = "1" -> 1 [] c = "2" -> 2 [] c = "3" -> 3
    [] c = "4" -> 4 [] c = "5" -> 5 [] c = "6" -> 6 [] c = "7" -> 7
    [] c = "8" -> 8 [] c = "9" -> 9

AllDigits(s) == \A i \in 1..Len(s) : CharAt(s, i) \in DigitChars

RECURSIVE DecValue(_)
DecValue(s) ==
  IF Len(s) = 0 THEN 0
  ELSE DecValue(SubSeq(s, 1, Len(s) - 1)) * 10 + DigitVal(CharAt(s, Len(s)))

\* String.prototype.trim
RECURSIVE Trim(_)
Trim(s) ==
  IF Len(s) > 0 /\ CharAt(s, 1) = " " THEN Trim(SubSeq(s, 2, Len(s)))
  ELSE IF Len(s) > 0 /\ CharAt(s, Len(s)) = " " THEN Trim(SubSeq(s, 1, Len(s) - 1))
  ELSE s

UpChar(c) ==
  CASE c = "a" -> "A" [] c = "b" -> "B" [] c = "c" -> "C" [] c = "d" -> "D"
    [] c = "e" -> "E" [] c = "f" -> "F" [] c = "g" -> "G" [] c = "h" -> "H"
    [] c = "i" -> "I" [] c = "j" -> "J" [] c = "k" -> "K" [] c = "l" -> "L"
    [] c = "m" -> "M" [] c = "n" -> "N" [] c = "o" -> "O" [] c = "p" -> "P"
    [] c = "q" -> "Q" [] c = "r" -> "R" [] c = "s" -> "S" [] c = "t" -> "T"
    [] c = "u" -> "U" [] c = "v" -> "V" [] c = "w" -> "W" [] c = "x" -> "X"
    [] c = "y" -> "Y" [] c = "z" -> "Z" [] OTHER -> c

LowChar(c) ==
  CASE c = "A" -> "a" [] c = "B" -> "b" [] c = "C" -> "c" [] c = "D" -> "d"
    [] c = "E" -> "e" [] c = "F" -> "f" [] c = "G" -> "g" [] c = "H" -> "h"
    [] c = "I" -> "i" [] c = "J" -> "j" [] c = "K" -> "k" [] c = "L" -> "l"
    [] c = "M" -> "m" [] c = "N" -> "n" [] c = "O" -> "o" [] c = "P" -> "p"
    [] c = "Q" -> "q" [] c = "R" -> "r" [] c = "S" -> "s" [] c = "T" -> "t"
    [] c = "U" -> "u" [] c = "V" -> "v" [] c = "W" -> "w" [] c = "X" -> "x"
    [] c = "Y" -> "y" [] c = "Z" -> "z" [] OTHER -> c

\* String.prototype.toUpperCase
RECURSIVE ToUpper(_)
ToUpper(s) ==
  IF Len(s) = 0 THEN "" ELSE UpChar(CharAt(s, 1)) \o ToUpper(SubSeq(s, 2, Len(s)))

\* String.prototype.toLowerCase
RECURSIVE ToLower(_)
ToLower(s) ==
  IF Len(s) = 0 THEN "" ELSE LowChar(CharAt(s, 1)) \o ToLower(SubSeq(s, 2, Len(s)))

\* Number(s) for a string s: surrounding blanks are dropped, the empty string
\* is 0, an optionally signed decimal numeral is its value, "Infinity" is
\* Infinity, and every other text (an ISO date-time among them) is NaN.
NumberOfString(s) ==
  LET u == Trim(s)
      neg == Len(u) > 0 /\ CharAt(u, 1) = "-"
      sgn == Len(u) > 0 /\ CharAt(u, 1) \in {"-", "+"}
      d == IF sgn THEN SubSeq(u, 2, Len(u)) ELSE u
  IN  IF u = "" THEN Num(0)
      ELSE IF d = "Infinity" THEN (IF neg THEN NegInf ELSE PosInf)
      ELSE IF Len(d) > 0 /\ AllDigits(d)
           THEN Num(IF neg THEN 0 - DecValue(d) ELSE DecValue(d))
      ELSE NaN

---------------------------------------------------------------------------
(* validate.ts *)

EVENTS ==
  {"lifecycle.activate", "lifecycle.deactivate", "extension.upgraded",
   "java.run.started", "java.run.completed", "java.run.error",
   "feature.webview.open", "feature.theme.change",
   "feature.customCss.enable", "feature.customCss.disable",
   "settings.changed", "error.unhandled", "telemetry.optout", "telemetry.optin",
   "test.ping", "install.created"}

\* 1e12, in units of 10^6
MsThreshold == 1000000

AnonLen == 32

MaxFieldLen == 30

HexChars == DigitChars \cup {"a", "b", "c", "d", "e", "f"}

LowerAlnum ==
  DigitChars \cup {"a", "b", "c", "d", "e", "f", "g", "h", "i", "j", "k", "l", "m", "n",
                   "o", "p", "q", "r", "s", "t", "u", "v", "w", "x", "y", "z"}

\* the pattern widened to /^[a-z0-9]{1,32}$/
AnonRegex_loose(s) ==
  Len(s) >= 1 /\ Len(s) <= AnonLen /\ \A i \in 1..Len(s) : CharAt(s, i) \in LowerAlnum

\* /^[a-f0-9]{32}$/.test(s)
AnonRegex(s) == Len(s) = AnonLen /\ \A i \in 1..Len(s) : CharAt(s, i) \in HexChars

\* the comparison written v <= 1e12
Below1e12_inclusive(v) ==
  CASE v.k = "num" -> v.n <= MsThreshold
    [] v.k \in {"neghuge", "ninf"} -> TRUE
    [] OTHER -> FALSE

\* v < 1e12, for v of type number
Below1e12(v) ==
  CASE v.k = "num" -> v.n < MsThreshold
    [] v.k \in {"neghuge", "ninf"} -> TRUE
    [] OTHER -> FALSE

\* v * 1000, for v of type number
Times1000(v) ==
  CASE v.k = "num" -> Num(v.n * 1000)
    [] v.k = "neghuge" -> NegInf
    [] OTHER -> v

\* an event object; nul marks the falsy value (null, undefined) in its place.
\* country and region are properties a client may add to its payload, which
\* { ...e } carries along.
Event(t, anon, evt, os, ext, vscode) ==
  [nul |-> FALSE, t |-> t, anon |-> anon, evt |-> evt, os |-> os, ext |-> ext,
   vscode |-> vscode, country |-> Undef, region |-> Undef]

NullEvent == [nul |-> TRUE, t |-> Undef, anon |-> Undef, evt |-> Undef,
              os |-> Undef, ext |-> Undef, vscode |-> Undef,
              country |-> Undef, region |-> Undef]

\* the first steps of normalizeEvent: t, coerced from a string
CoerceT(e) == IF IsString(e.t) THEN NumberOfString(e.t.s) ELSE e.t

\* the length checks written >= 30
normalizeEvent_offByOne(e) ==
  IF e.nul THEN NullEvent
  ELSE
    LET t0 == CoerceT(e)
        t1 == IF Below1e12(t0) THEN Times1000(t0) ELSE t0
        out == [e EXCEPT !.t = t1,
                         !.ext = IF IsString(e.ext) THEN e.ext ELSE Str("0.0.0"),
                         !.vscode = IF IsString(e.vscode) THEN e.vscode ELSE Str("0.0.0"),
                         !.os = IF IsString(e.os) THEN e.os ELSE Str("unknown")]
    IN  IF ~IsNumber(t0) \/ ~IsFinite(t0) THEN NullEvent
        ELSE IF ~IsString(out.anon) \/ ~AnonRegex(out.anon.s) THEN NullEvent
        ELSE IF ~IsString(out.evt) \/ out.evt.s \notin EVENTS THEN NullEvent
        ELSE IF Len(out.ext.s) >= MaxFieldLen \/ Len(out.vscode.s) >= MaxFieldLen
                \/ Len(out.os.s) >= MaxFieldLen THEN NullEvent
        ELSE out

normalizeEvent(e) ==
  IF e.nul THEN NullEvent
  ELSE
    LET t0 == CoerceT(e)
        t1 == IF Below1e12(t0) THEN Times1000(t0) ELSE t0
        out == [e EXCEPT !.t = t1,
                         !.ext = IF IsString(e.ext) THEN e.ext ELSE Str("0.0.0"),
                         !.vscode = IF IsString(e.vscode) THEN e.vscode ELSE Str("0.0.0"),
                         !.os = IF IsString(e.os) THEN e.os ELSE Str("unknown")]
    IN  IF ~IsNumber(t0) \/ ~IsFinite(t0) THEN NullEvent
        ELSE IF ~IsString(out.anon) \/ ~AnonRegex(out.anon.s) THEN NullEvent
        ELSE IF ~IsString(out.evt) \/ out.evt.s \notin EVENTS THEN NullEvent
        ELSE IF Len(out.ext.s) > MaxFieldLen \/ Len(out.vscode.s) > MaxFieldLen
                \/ Len(out.os.s) > MaxFieldLen THEN NullEvent
        ELSE out

validateEvent(e) ==
  IF e.nul \/ ~IsNumber(e.t) THEN FALSE
  ELSE IF ~IsString(e.anon) \/ ~AnonRegex(e.anon.s) THEN FALSE
  ELSE IF ~IsString(e.evt) \/ e.evt.s \notin EVENTS THEN FALSE
  ELSE IF ~IsString(e.ext) \/ Len(e.ext.s) > MaxFieldLen THEN FALSE
  ELSE IF ~IsString(e.vscode) \/ Len(e.vscode.s) > MaxFieldLen THEN FALSE
  ELSE IF ~IsString(e.os) \/ Len(e.os.s) > MaxFieldLen THEN FALSE
  ELSE TRUE

---------------------------------------------------------------------------
(* server.ts / server.js: client IP and geography *)

CountryHeaders ==
  <<"cf-ipcountry", "x-geo-country", "x-country-code", "x-appengine-country",
    "fastly-country-code">>

RegionHeaders ==
  <<"cf-region-code", "x-geo-region", "x-appengine-region", "x-region">>

IpHeaders == <<"cf-connecting-ip", "x-client-ip", "x-real-ip", "x-forwarded-for">>

Range(q) == {q[i] : i \in DOMAIN q}

HeaderNames == Range(CountryHeaders) \cup Range(RegionHeaders) \cup Range(IpHeaders)

NoHeaders == [name \in HeaderNames |-> Undef]

\* h(req, name): the header's value, undefined when the request has none
h(req, name) == req.headers[name]

\* a || b || ... || undefined over the headers named by q, in order
RECURSIVE FirstTruthyHeader(_, _)
FirstTruthyHeader(req, q) ==
  IF Len(q) = 0 THEN Undef
  ELSE IF Truthy(h(req, Head(q))) THEN h(req, Head(q))
  ELSE FirstTruthyHeader(req, Tail(q))

\* /^172\.(1[6-9]|2\d|3[0-1])\./
Is172Private(s) ==
  /\ StartsWith(s, "172.")
  /\ Len(s) >= 7
  /\ CharAt(s, 7) = "."
  /\ \/ CharAt(s, 5) = "1" /\ CharAt(s, 6) \in {"6", "7", "8", "9"}
     \/ CharAt(s, 5) = "2" /\ CharAt(s, 6) \in DigitChars
     \/ CharAt(s, 5) = "3" /\ CharAt(s, 6) \in {"0", "1"}

isPrivate(ip) ==
  IF ~Truthy(ip) THEN TRUE
  ELSE \/ \E p \in {"10.", "127.", "192.168.", "::1", "fc00:", "fe80:", "fd00:"} :
            StartsWith(ip.s, p)
       \/ Is172Private(ip.s)

HasComma(s) == \E i \in 1..Len(s) : CharAt(s, i) = ","

FirstComma(s) == CHOOSE i \in 1..Len(s) :
  CharAt(s, i) = "," /\ \A j \in 1..(i - 1) : CharAt(s, j) # ","

\* String.prototype.split(',')
RECURSIVE SplitComma(_)
SplitComma(s) ==
  IF ~HasComma(s) THEN <<s>>
  ELSE <<SubSeq(s, 1, FirstComma(s) - 1)>>
         \o SplitComma(SubSeq(s, FirstComma(s) + 1, Len(s)))

\* Array.prototype.filter(Boolean) over values
RECURSIVE FilterTruthy(_)
FilterTruthy(q) ==
  IF Len(q) = 0 THEN <<>>
  ELSE IF Truthy(Head(q)) THEN <<Head(q)>> \o FilterTruthy(Tail(q))
  ELSE FilterTruthy(Tail(q))

parseForwardedFor(v) ==
  IF ~Truthy(v) THEN <<>>
  ELSE LET parts == SplitComma(v.s)
       IN  FilterTruthy([i \in DOMAIN parts |-> Str(Trim(parts[i]))])

RECURSIVE FirstPublic(_)
FirstPublic(chain) ==
  IF Len(chain) = 0 THEN Undef
  ELSE IF ~isPrivate(Head(chain)) THEN Head(chain)
  ELSE FirstPublic(Tail(chain))

\* the chain with the peer address put first
pickClientIp_peerFirst(req) ==
  LET chain == FilterTruthy(
                 <<req.ip, h(req, "cf-connecting-ip"), h(req, "x-client-ip"),
                   h(req, "x-real-ip")>>
                 \o parseForwardedFor(h(req, "x-forwarded-for")))
      pub == FirstPublic(chain)
  IN  IF pub # Undef THEN pub
      ELSE IF Len(chain) > 0 THEN chain[1]
      ELSE req.ip

pickClientIp(req) ==
  LET chain == FilterTruthy(
                 <<h(req, "cf-connecting-ip"), h(req, "x-client-ip"), h(req, "x-real-ip")>>
                 \o parseForwardedFor(h(req, "x-forwarded-for"))
                 \o <<req.ip>>)
      pub == FirstPublic(chain)
  IN  IF pub # Undef THEN pub
      ELSE IF Len(chain) > 0 THEN chain[1]
      ELSE req.ip

\* the header values passed on without toUpperCase
extractGeoFromHeaders_verbatim(req) ==
  LET country == FirstTruthyHeader(req, CountryHeaders)
      region == FirstTruthyHeader(req, RegionHeaders)
  IN  [country |-> IF Truthy(country) THEN country ELSE Undef,
       region |-> IF Truthy(region) THEN region ELSE Undef]

extractGeoFromHeaders(req) ==
  LET country == FirstTruthyHeader(req, CountryHeaders)
      region == FirstTruthyHeader(req, RegionHeaders)
  IN  [country |-> IF Truthy(country) THEN Str(ToUpper(country.s)) ELSE Undef,
       region |-> IF Truthy(region) THEN Str(ToUpper(region.s)) ELSE Undef]

\* reader.get(ip): the record the geo database holds for ip.  found = FALSE is
\* a null record, throws = TRUE an address the reader rejects; country,
\* registered and sub are the three iso_code fields, "" where absent.
GeoRecord(throws, found, country, registered, sub) ==
  [throws |-> throws, found |-> found, country |-> country,
   registered |-> registered, sub |-> sub]

ReaderGet(ip) ==
  CASE ip = "203.0.113.7" -> GeoRecord(FALSE, TRUE, "gb", "", "eng")
    [] ip = "8.8.8.8" -> GeoRecord(FALSE, TRUE, "", "us", "")
    [] ip = "203.0.113.9" -> GeoRecord(FALSE, TRUE, "FR", "fr", "IDF")
    [] ip = "not-an-ip" -> GeoRecord(TRUE, FALSE, "", "", "")
    [] OTHER -> GeoRecord(FALSE, FALSE, "", "", "")

EmptyGeo == [country |-> "", region |-> ""]

\* a placeholder country returned where there is no reader or no address
lookup_unknown(ip, loaded) ==
  IF ~loaded \/ ~Truthy(ip) THEN [country |-> "UNKNOWN", region |-> ""]
  ELSE LET rec == ReaderGet(ip.s)
       IN  IF rec.throws \/ ~rec.found THEN EmptyGeo
           ELSE LET country == IF rec.country # "" THEN rec.country ELSE rec.registered
                IN  [country |-> ToUpper(country), region |-> ToUpper(rec.sub)]

\* geo.ts lookup; loaded says whether initGeo opened a reader
lookup(ip, loaded) ==
  IF ~loaded \/ ~Truthy(ip) THEN EmptyGeo
  ELSE LET rec == ReaderGet(ip.s)
       IN  IF rec.throws \/ ~rec.found THEN EmptyGeo
           ELSE LET country == IF rec.country # "" THEN rec.country ELSE rec.registered
                IN  [country |-> ToUpper(country), region |-> ToUpper(rec.sub)]

\* the database asked first, the headers used only where it has no country
resolveGeo_lookupFirst(req, ip, loaded) ==
  LET hdr == extractGeoFromHeaders(req)
      g == lookup(ip, loaded)
  IN  IF g.country # "" THEN [country |-> g.country, region |-> g.region, consulted |-> TRUE]
      ELSE [country |-> IF Truthy(hdr.country) THEN hdr.country.s ELSE "",
            region |-> IF Truthy(hdr.region) THEN hdr.region.s ELSE "",
            consulted |-> TRUE]

\* resolveGeo; consulted records whether lookup was called
resolveGeo(req, ip, loaded) ==
  LET hdr == extractGeoFromHeaders(req)
  IN  IF Truthy(hdr.country)
      THEN [country |-> hdr.country.s,
            region |-> IF Truthy(hdr.region) THEN hdr.region.s ELSE "",
            consulted |-> FALSE]
      ELSE LET g == lookup(ip, loaded)
           IN  [country |-> g.country, region |-> g.region, consulted |-> TRUE]

---------------------------------------------------------------------------
(* Inputs *)

Hex32 == "0123456789abcdef0123456789abcdef"

OtherHex32 == "ffffffffffffffffffffffffffffffff"

Chars30 == "123456789012345678901234567890"

Chars31 == "1234567890123456789012345678901"

\* an ISO date-time and the instant it denotes: 1704067000000 ms after the
\* epoch, 1704067 in the unit of timestamps here
IsoInstant == [text |-> "2023-12-31T23:56:40Z", t |-> Num(1704067)]

IsoText == IsoInstant.text

ProbeT ==
  {Num(1700000), Num(1700), Num(MsThreshold), Num(MsThreshold - 1), Num(0),
   Num(0 - 1700), Num(1), NegHuge, NaN, PosInf, Str("1700"), Str(" 1700000 "),
   Str(""), Str(IsoText), Str("abc"), Str("Infinity"), Undef, Null, Bool(TRUE)}

ProbeAnon ==
  {Str(Hex32), Str(ToUpper(Hex32)), Str(SubSeq(Hex32, 1, 31)), Str(Hex32 \o "0"),
   Str("g" \o SubSeq(Hex32, 1, 31)), Str("user123"), Undef, Num(7)}

ProbeEvt == {Str("test.ping"), Str("java.run.completed"), Str("app.started"), Undef}

ProbeOs == {Undef, Str("linux"), Str(""), Str(Chars30), Str(Chars31), Num(5)}

ProbeExt == {Undef, Str("1.2.3"), Str(Chars31)}

ProbeVscode == {Undef, Str("1.90.0"), Str(Chars31)}

ProbeEvents ==
  {NullEvent} \cup
  {Event(t, anon, evt, os, ext, vscode) :
     t \in ProbeT, anon \in ProbeAnon, evt \in ProbeEvt, os \in ProbeOs,
     ext \in ProbeExt, vscode \in ProbeVscode}

IdleProbe == [stage |-> "idle"]

CountryValues == {Str(""), Str("us"), Str("DE"), Str("gB")}

RegionValues == {Undef, Str(""), Str("ca"), Str("ENG")}

ProbeRequests ==
  {[headers |-> [[[[[NoHeaders EXCEPT ![c2] = v2]
                               EXCEPT ![c1] = v1]
                               EXCEPT ![r1] = w1]
                               EXCEPT !["x-forwarded-for"] = xff]
                               EXCEPT !["cf-connecting-ip"] = cf],
    ip |-> peer] :
     c1 \in Range(CountryHeaders), v1 \in CountryValues \cup {Undef},
     c2 \in Range(CountryHeaders), v2 \in {Undef, Str("fr")},
     r1 \in Range(RegionHeaders), w1 \in RegionValues,
     xff \in {Undef, Str("10.0.0.5, 203.0.113.7")},
     cf \in {Undef, Str("8.8.8.8"), Str("not-an-ip")},
     peer \in {Undef, Str("127.0.0.1"), Str("203.0.113.9")}}

NoGeo == [country |-> "", region |-> "", consulted |-> FALSE]

IdleGeoProbe == [stage |-> "idle"]

---------------------------------------------------------------------------
(* The normalizer and validator, applied to one event *)

NoIngest ==
  /\ dbOn = FALSE /\ geoLoaded = FALSE /\ store = <<>> /\ sink = <<>>
  /\ served = 0 /\ last = [handler |-> "none"]
  /\ seen = {} /\ stats = [via |-> "none"] /\ inflight = <<>>

InitNorm ==
  /\ probe \in {[stage |-> "raw", raw |-> e, out |-> NullEvent, ok |-> FALSE] :
                  e \in ProbeEvents}
  /\ geoProbe = IdleGeoProbe
  /\ NoIngest

\* ev = normalizeEvent(evRaw)
ProbeNormalize ==
  /\ probe.stage = "raw"
  /\ probe' = [probe EXCEPT !.stage = "normalized", !.out = normalizeEvent(probe.raw)]
  /\ UNCHANGED <<geoProbe, dbOn, geoLoaded, store, sink, served, last, seen, stats,
                inflight>>

\* !ev || !validateEvent(ev), on the normalizer's result
ProbeValidate ==
  /\ probe.stage = "normalized"
  /\ probe' = [probe EXCEPT !.stage = "validated", !.ok = validateEvent(probe.out)]
  /\ UNCHANGED <<geoProbe, dbOn, geoLoaded, store, sink, served, last, seen, stats,
                inflight>>

\* validateEvent called on a record as it stands
ProbeValidateRaw ==
  /\ probe.stage = "raw"
  /\ probe' = [probe EXCEPT !.stage = "checked", !.out = probe.raw,
                            !.ok = validateEvent(probe.raw)]
  /\ UNCHANGED <<geoProbe, dbOn, geoLoaded, store, sink, served, last, seen, stats,
                inflight>>

NextNorm == ProbeNormalize \/ ProbeValidate \/ ProbeValidateRaw

SpecNorm == InitNorm /\ [][NextNorm]_vars

---------------------------------------------------------------------------
(* The geo resolver, applied to one request *)

InitGeo ==
  /\ probe = IdleProbe
  /\ geoProbe \in {[stage |-> "req", req |-> r, ip |-> Undef, geo |-> NoGeo] :
                     r \in ProbeRequests}
  /\ geoLoaded \in BOOLEAN
  /\ dbOn = FALSE /\ store = <<>> /\ sink = <<>> /\ served = 0
  /\ last = [handler |-> "none"]
  /\ seen = {} /\ stats = [via |-> "none"] /\ inflight = <<>>

\* const ip = pickClientIp(req)
GeoPickIp ==
  /\ geoProbe.stage = "req"
  /\ geoProbe' = [geoProbe EXCEPT !.stage = "ip", !.ip = pickClientIp(geoProbe.req)]
  /\ UNCHANGED <<probe, dbOn, geoLoaded, store, sink, served, last, seen, stats,
                inflight>>

\* const geo = resolveGeo(req, ip)
GeoResolve ==
  /\ geoProbe.stage = "ip"
  /\ geoProbe' = [geoProbe EXCEPT !.stage = "geo",
                     !.geo = resolveGeo(geoProbe.req, geoProbe.ip, geoLoaded)]
  /\ UNCHANGED <<probe, dbOn, geoLoaded, store, sink, served, last, seen, stats,
                inflight>>

NextGeo == GeoPickIp \/ GeoResolve

SpecGeo == InitGeo /\ [][NextGeo]_vars

---------------------------------------------------------------------------
(* pickClientIp and isPrivate, applied to one request and to one address *)

IpRequests ==
  {[headers |-> [NoHeaders EXCEPT !["cf-connecting-ip"] = cf, !["x-client-ip"] = xc,
                                  !["x-real-ip"] = xr, !["x-forwarded-for"] = xff],
    ip |-> peer] :
     cf \in {Undef, Str(""), Str("10.0.0.5"), Str("8.8.8.8")},
     xc \in {Undef, Str("192.168.0.2"), Str("198.51.100.4")},
     xr \in {Undef, Str("127.0.0.1"), Str("203.0.113.7")},
     xff \in {Undef, Str(""), Str("10.0.0.5, 203.0.113.7"),
              Str(" 192.168.1.1 ,,172.16.0.9"), Str("169.254.7.7,198.51.100.4")},
     peer \in {Undef, Str("127.0.0.1"), Str("203.0.113.9")}}

ProbeAddresses ==
  {"10.0.0.5", "10.255.255.255", "11.0.0.1", "172.15.0.1", "172.16.0.1", "172.20.1.1",
   "172.31.255.254", "172.32.0.1", "172.160.0.1", "192.168.1.1", "192.169.1.1",
   "127.0.0.1", "127.255.0.1", "128.0.0.1", "169.254.10.20", "169.253.0.1", "::1",
   "fe80::1", "febf::1", "fec0::1", "fc00::1", "fd00::1", "fd12:3456::1", "fe00::1",
   "8.8.8.8", "1.1.1.1", "203.0.113.7", "198.51.100.4", "2606:4700::1111"}

InitIp ==
  /\ probe = IdleProbe
  /\ geoProbe \in {[stage |-> "ipreq", req |-> r, ip |-> Undef] : r \in IpRequests}
                  \cup {[stage |-> "addr", addr |-> a, private |-> FALSE] :
                          a \in ProbeAddresses}
  /\ NoIngest

\* const ip = pickClientIp(req)
IpPick ==
  /\ geoProbe.stage = "ipreq"
  /\ geoProbe' = [geoProbe EXCEPT !.stage = "picked", !.ip = pickClientIp(geoProbe.req)]
  /\ UNCHANGED <<probe, dbOn, geoLoaded, store, sink, served, last, seen, stats,
                inflight>>

\* isPrivate(ip), as the loop of pickClientIp calls it on a candidate
IpClassify ==
  /\ geoProbe.stage = "addr"
  /\ geoProbe' = [geoProbe EXCEPT !.stage = "classified",
                                  !.private = isPrivate(Str(geoProbe.addr))]
  /\ UNCHANGED <<probe, dbOn, geoLoaded, store, sink, served, last, seen, stats,
                inflight>>

NextIp == IpPick \/ IpClassify

SpecIp == InitIp /\ [][NextIp]_vars

---------------------------------------------------------------------------
(* db.js: the Store insert *)

\* Date.parse(s) for "YYYY-MM-DDTHH:MM:SSZ", NaN for any other text; the
\* result is in units of 10^6 ms, like every timestamp here
IsIsoDateTime(s) ==
  /\ Len(s) = 20
  /\ \A i \in {1, 2, 3, 4, 6, 7, 9, 10, 12, 13, 15, 16, 18, 19} : CharAt(s, i) \in DigitChars
  /\ CharAt(s, 5) = "-" /\ CharAt(s, 8) = "-" /\ CharAt(s, 11) = "T"
  /\ CharAt(s, 14) = ":" /\ CharAt(s, 17) = ":" /\ CharAt(s, 20) = "Z"

DaysFromCivil(y, m, d) ==
  LET yy == IF m <= 2 THEN y - 1 ELSE y
      era == yy \div 400
      yoe == yy - era * 400
      mp == IF m > 2 THEN m - 3 ELSE m + 9
      doy == (153 * mp + 2) \div 5 + d - 1
      doe == yoe * 365 + yoe \div 4 - yoe \div 100 + doy
  IN  era * 146097 + doe - 719468

DateParse(s) ==
  IF ~IsIsoDateTime(s) THEN NaN
  ELSE LET days == DaysFromCivil(DecValue(SubSeq(s, 1, 4)), DecValue(SubSeq(s, 6, 7)),
                                 DecValue(SubSeq(s, 9, 10)))
           secs == days * 86400 + DecValue(SubSeq(s, 12, 13)) * 3600
                     + DecValue(SubSeq(s, 15, 16)) * 60 + DecValue(SubSeq(s, 18, 19))
       IN  Num(secs \div 1000)

\* v || null
OrNull(v) == IF Truthy(v) THEN v ELSE Null

\* the geography columns taken from the event where it has them
DbRow_clientGeo(ev, geo) ==
  LET tnum == IF IsNumber(ev.t) THEN ev.t
              ELSE IF IsString(ev.t) THEN DateParse(ev.t.s) ELSE NaN
      ms == IF Below1e12(tnum) THEN Times1000(tnum) ELSE tnum
  IN  [t |-> ms, anon |-> ev.anon, evt |-> ev.evt, os |-> OrNull(ev.os),
       ext |-> OrNull(ev.ext), vscode |-> OrNull(ev.vscode),
       country |-> IF Truthy(ev.country) THEN ev.country ELSE OrNull(Str(geo.country)),
       region |-> IF Truthy(ev.region) THEN ev.region ELSE OrNull(Str(geo.region))]

\* the row dbInsertEvent hands to pool.query: ts = new Date(ms) and the
\* columns taken from the event and the request's geography
DbRow(ev, geo) ==
  LET tnum == IF IsNumber(ev.t) THEN ev.t
              ELSE IF IsString(ev.t) THEN DateParse(ev.t.s) ELSE NaN
      ms == IF Below1e12(tnum) THEN Times1000(tnum) ELSE tnum
  IN  [t |-> ms, anon |-> ev.anon, evt |-> ev.evt, os |-> OrNull(ev.os),
       ext |-> OrNull(ev.ext), vscode |-> OrNull(ev.vscode),
       country |-> OrNull(Str(geo.country)), region |-> OrNull(Str(geo.region))]

NoRow ==
  [t |-> NaN, anon |-> Undef, evt |-> Undef, os |-> Null, ext |-> Null, vscode |-> Null,
   country |-> Null, region |-> Null]

\* dbInsertEvent(ev, geo): threw says the insert rejected.  pool.query rejects
\* when the database does (queryFails), and always for an Invalid Date, which
\* is no value of the column t timestamptz not null.
dbInsertEvent(ev, geo, queryFails) ==
  LET row == DbRow(ev, geo)
  IN  [threw |-> queryFails \/ row.t.k # "num", row |-> row]

---------------------------------------------------------------------------
(* server.js / server.ts: POST /t *)

MaxBatch == 2

MaxRequests == 2

SchemaTag == "jwc.v1"

\* the schema compared as sent, without trim() and toLowerCase()
SchemaOf_exact(body) == IF IsString(body.schema) THEN body.schema.s ELSE ""

\* typeof raw?.schema === 'string' ? raw.schema.trim().toLowerCase() : ''
SchemaOf(body) == IF IsString(body.schema) THEN ToLower(Trim(body.schema.s)) ELSE ""

\* Array.isArray(raw?.batch) ? raw.batch : [raw]
BatchOf(body) == IF body.isArray THEN body.batch ELSE <<body.ev>>

\* one turn of the loop over batchRaw: the i-th event, with the database
\* rejecting the insert of event number fail (0: of none)
HandleEvent(evRaw, i, geo, fail, useDb) ==
  LET ev == normalizeEvent(evRaw)
      row == DbRow(ev, geo)
  IN  IF ev.nul \/ ~validateEvent(ev)
      THEN [result |-> "skipped", insert |-> "none", ev |-> ev, row |-> NoRow]
      ELSE IF ~useDb
      THEN [result |-> "accepted", insert |-> "none", ev |-> ev, row |-> NoRow]
      ELSE IF dbInsertEvent(ev, geo, i = fail).threw
      THEN [result |-> "skipped", insert |-> "threw", ev |-> ev, row |-> NoRow]
      ELSE [result |-> "accepted", insert |-> "ok", ev |-> ev, row |-> row]

HandleBatch(batchRaw, geo, fail, useDb) ==
  [i \in 1..Len(batchRaw) |-> HandleEvent(batchRaw[i], i, geo, fail, useDb)]

RECURSIVE CountResult(_, _)
CountResult(outcomes, r) ==
  IF Len(outcomes) = 0 THEN 0
  ELSE (IF Head(outcomes).result = r THEN 1 ELSE 0) + CountResult(Tail(outcomes), r)

\* the rows the loop's successful inserts append to telemetry_events, in order
RECURSIVE InsertedRows(_, _)
InsertedRows(outcomes, geo) ==
  IF Len(outcomes) = 0 THEN <<>>
  ELSE (IF Head(outcomes).insert = "ok" THEN <<Head(outcomes).row>> ELSE <<>>)
         \o InsertedRows(Tail(outcomes), geo)

\* transform.ts: the line appendLine writes and the object appendJsonEvent
\* writes for an event, each inside its own try { } catch {}
SinkEntries(ev, geo) ==
  <<[file |-> "log", anon |-> ev.anon, evt |-> ev.evt, country |-> geo.country,
     region |-> geo.region],
    [file |-> "json", anon |-> ev.anon, evt |-> ev.evt, country |-> geo.country,
     region |-> geo.region]>>

RECURSIVE SunkEntries(_, _)
SunkEntries(outcomes, geo) ==
  IF Len(outcomes) = 0 THEN <<>>
  ELSE (IF Head(outcomes).result = "accepted" THEN SinkEntries(Head(outcomes).ev, geo)
        ELSE <<>>) \o SunkEntries(Tail(outcomes), geo)

Reply(status, error, accepted, skipped) ==
  [status |-> status, error |-> error, accepted |-> accepted, skipped |-> skipped]

Handled(handler, req, reply, geo, outcomes, rows, sunk) ==
  [handler |-> handler, body |-> req.body, reply |-> reply, geo |-> geo,
   outcomes |-> outcomes, rows |-> rows, sunk |-> sunk]

NotHandled == [handler |-> "none"]

\* dist/server.js, app.post('/t')
PostT(req, fail) ==
  IF ~dbOn
  THEN /\ last' = Handled("dist", req, Reply(503, "db_disabled", 0, 0), NoGeo,
                          <<>>, <<>>, <<>>)
       /\ UNCHANGED <<store, sink>>
  ELSE IF SchemaOf(req.body) # SchemaTag
  THEN /\ last' = Handled("dist", req, Reply(400, "schema_unsupported", 0, 0), NoGeo,
                          <<>>, <<>>, <<>>)
       /\ UNCHANGED <<store, sink>>
  ELSE \E ip \in {pickClientIp(req)} :
       \E geo \in {resolveGeo(req, ip, geoLoaded)} :
       \E outcomes \in {HandleBatch(BatchOf(req.body), geo, fail, TRUE)} :
       \E rows \in {InsertedRows(outcomes, geo)} :
         /\ store' = store \o rows
         /\ last' = Handled("dist", req,
                            Reply(200, "", CountResult(outcomes, "accepted"),
                                  CountResult(outcomes, "skipped")),
                            geo, outcomes, rows, <<>>)
         /\ UNCHANGED sink

\* src/server.ts, app.post('/t').  appendLine and appendJsonEvent each sit in
\* a try { } catch {}: a failed write is dropped silently, and the writes are
\* taken here to succeed.
PostTSrc(req, fail) ==
  IF SchemaOf(req.body) # SchemaTag
  THEN /\ last' = Handled("src", req, Reply(400, "schema_unsupported", 0, 0), NoGeo,
                          <<>>, <<>>, <<>>)
       /\ UNCHANGED <<store, sink>>
  ELSE \E ip \in {pickClientIp(req)} :
       \E geo \in {resolveGeo(req, ip, geoLoaded)} :
       \E outcomes \in {HandleBatch(BatchOf(req.body), geo, fail, dbOn)} :
       \E rows \in {InsertedRows(outcomes, geo)} :
       \E sunk \in {SunkEntries(outcomes, geo)} :
         /\ store' = store \o rows
         /\ sink' = sink \o sunk
         /\ last' = Handled("src", req,
                            Reply(200, "", CountResult(outcomes, "accepted"),
                                  CountResult(outcomes, "skipped")),
                            geo, outcomes, rows, sunk)

ValidMs == Event(Num(1700000), Str(Hex32), Str("test.ping"), Str("linux"), Str("1.2.3"),
                 Str("1.90.0"))

ValidSeconds == Event(Num(1700), Str(OtherHex32), Str("java.run.completed"), Str(""),
                      Undef, Undef)

BadAnon == [ValidMs EXCEPT !.anon = Str("user123")]

IsoT == [ValidMs EXCEPT !.t = Str(IsoText)]

HugeT == [ValidMs EXCEPT !.t = NegHuge]

\* a payload that claims a geography of its own
ClientGeo == [ValidMs EXCEPT !.country = Str("ZZ"), !.region = Str("QQ")]

\* t in seconds, of a day in January 1970
EarlySeconds == [ValidMs EXCEPT !.t = Num(1)]

\* t before the epoch
NegativeT == [ValidMs EXCEPT !.t = Num(0 - 2)]

NoEvent == Event(Undef, Undef, Undef, Undef, Undef, Undef)

RECURSIVE SeqsUpTo(_, _)
SeqsUpTo(S, n) ==
  IF n = 0 THEN {<<>>}
  ELSE LET shorter == SeqsUpTo(S, n - 1)
       IN  shorter \cup {Append(q, x) : q \in {r \in shorter : Len(r) = n - 1}, x \in S}

ArrayBody(schema, batch) ==
  [schema |-> schema, isArray |-> TRUE, batch |-> batch, ev |-> NoEvent]

SingleBody(schema, ev) ==
  [schema |-> schema, isArray |-> FALSE, batch |-> <<>>, ev |-> ev]

\* the batch of the end-to-end example: three events, one with an invalid anon
ExampleBatch == <<ValidMs, BadAnon, ValidSeconds>>

IngestBodies ==
  {ArrayBody(Str("jwc.v1"), b) : b \in SeqsUpTo({ValidSeconds, BadAnon}, MaxBatch)}
  \cup {ArrayBody(Str("jwc.v1"), ExampleBatch), ArrayBody(Str("jwc.v1"), <<NullEvent, IsoT>>),
        ArrayBody(Str("jwc.v1"), <<ClientGeo, ValidSeconds>>),
        ArrayBody(Str("jwc.v2"), <<ValidMs, ValidSeconds>>)}
  \cup {SingleBody(Str("jwc.v1"), e) : e \in {ValidMs, IsoT, HugeT, EarlySeconds, NegativeT}}
  \cup {SingleBody(sc, ValidMs) : sc \in {Str(" JWC.V1 "), Str("jwc.v1x"), Undef}}

UsHeaders ==
  [NoHeaders EXCEPT !["cf-ipcountry"] = Str("us"), !["cf-region-code"] = Str("ca")]

IngestRequests ==
  {[body |-> b, headers |-> NoHeaders, ip |-> Str("203.0.113.9")] : b \in IngestBodies}
  \cup {[body |-> b, headers |-> UsHeaders, ip |-> Str("10.0.0.5")] :
          b \in {ArrayBody(Str("jwc.v1"), ExampleBatch), SingleBody(Str("jwc.v1"), ValidMs),
                 ArrayBody(Str("jwc.v1"), <<ClientGeo, ValidSeconds>>)}}

Init ==
  /\ probe = IdleProbe
  /\ geoProbe = IdleGeoProbe
  /\ dbOn \in BOOLEAN
  /\ geoLoaded \in BOOLEAN
  /\ store = <<>>
  /\ sink = <<>>
  /\ served = 0
  /\ last = NotHandled
  /\ seen = {}
  /\ inflight = <<>>
  /\ stats = [via |-> "none"]

IngestDist ==
  \E req \in IngestRequests : \E fail \in 0..Len(BatchOf(req.body)) :
    /\ served < MaxRequests
    /\ served' = served + 1
    /\ PostT(req, fail)
    /\ UNCHANGED <<probe, geoProbe, dbOn, geoLoaded, seen, stats,
                  inflight>>

IngestSrc ==
  \E req \in IngestRequests : \E fail \in 0..Len(BatchOf(req.body)) :
    /\ served < MaxRequests
    /\ served' = served + 1
    /\ PostTSrc(req, fail)
    /\ UNCHANGED <<probe, geoProbe, dbOn, geoLoaded, seen, stats,
                  inflight>>

Next == IngestDist \/ IngestSrc

Spec == Init /\ [][Next]_vars

---------------------------------------------------------------------------
(* db.js dbReadStats and stats.js readWindowStats: the aggregations *)

\* a row of telemetry_events, or an event of a json/<day>.jsonl file, as the
\* aggregations read it: t in ms, anon a string, dur the duration_ms column
\* (m.durationMs in a file), phase the error_phase column (m.phase); country,
\* dur and phase are Null where the column is null or the property absent
StatRow(t, anon, evt, country, dur, phase) ==
  [t |-> t, anon |-> anon, evt |-> evt, country |-> country, dur |-> dur,
   phase |-> phase, sid |-> Null, exit |-> Null, inter |-> Null]

\* a row with the columns session_id, exit_code and scanner_usage set
SessRow(row, sid, exit, inter) ==
  [row EXCEPT !.sid = sid, !.exit = exit, !.inter = inter]

\* new Date(s).getTime() in ms for s of the form YYYY-MM-DDTHH:MM:SSZ, NaN for
\* any other text
DateMs(s) ==
  IF ~IsIsoDateTime(s) THEN NaN
  ELSE LET days == DaysFromCivil(DecValue(SubSeq(s, 1, 4)), DecValue(SubSeq(s, 6, 7)),
                                 DecValue(SubSeq(s, 9, 10)))
           secs == days * 86400 + DecValue(SubSeq(s, 12, 13)) * 3600
                     + DecValue(SubSeq(s, 15, 16)) * 60 + DecValue(SubSeq(s, 18, 19))
       IN  Num(secs * 1000)

\* dbReadStats: from and to of the queries.  The default is the epoch and now;
\* fromS and toS replace it when both are given, both parse and ft <= tt.
WindowOf(fromS, toS, now) ==
  LET ft == IF IsString(fromS) THEN DateMs(fromS.s \o "T00:00:00Z") ELSE NaN
      tt == IF IsString(toS) THEN DateMs(toS.s \o "T23:59:59Z") ELSE NaN
  IN  IF Truthy(fromS) /\ Truthy(toS) /\ ft.k = "num" /\ tt.k = "num" /\ ft.n <= tt.n
      THEN [from |-> ft.n, to |-> tt.n]
      ELSE [from |-> 0, to |-> now]

\* where t >= $1 and t < $2
InWindow(r, w) == r.t >= w.from /\ r.t < w.to

\* insertion of x into an ascending sequence
RECURSIVE InsertAsc(_, _)
InsertAsc(q, x) ==
  IF Len(q) = 0 THEN <<x>>
  ELSE IF x <= Head(q) THEN <<x>> \o q
  ELSE <<Head(q)>> \o InsertAsc(Tail(q), x)

\* order by dur; durations.sort((a, b) => a - b)
RECURSIVE SortAsc(_)
SortAsc(q) == IF Len(q) = 0 THEN <<>> ELSE InsertAsc(SortAsc(Tail(q)), Head(q))

\* Math.ceil(a / b) for a >= 0, b > 0
CeilDiv(a, b) == (a + b - 1) \div b

Max(a, b) == IF a >= b THEN a ELSE b

Min(a, b) == IF a <= b THEN a ELSE b

\* a quotient num / den, kept as the pair
Rate(num, den) == [num |-> num, den |-> den]

HIST_EDGES == <<0, 500, 1000, 3000, 10000, 30000, 60000, 120000>>

\* continentOf(country) of db.js; CONTINENT of stats.js holds the same table
ContinentTable(cc) ==
  CASE cc \in {"US", "CA", "MX"} -> "NA"
    [] cc \in {"BR", "AR", "CL", "CO"} -> "SA"
    [] cc \in {"GB", "DE", "FR", "ES", "IT", "NL", "SE", "PL", "IE", "PT", "CZ", "RO", "HU",
               "RU", "UA"} -> "EU"
    [] cc \in {"TR", "CN", "JP", "KR", "IN", "SG", "HK", "TW", "ID", "PH", "TH", "VN", "MY",
               "PK", "BD"} -> "AS"
    [] cc \in {"AU", "NZ"} -> "OC"
    [] cc \in {"ZA", "NG", "EG", "MA", "KE", "ET", "DZ", "GH", "TZ", "CI", "SN"} -> "AF"
    [] OTHER -> ""

\* the table alone, without the || 'Unknown'
continentOf_tableOnly(country) ==
  IF ~Truthy(country) THEN "Unknown" ELSE ContinentTable(ToUpper(country.s))

continentOf(country) ==
  IF ~Truthy(country) THEN "Unknown"
  ELSE IF ContinentTable(ToUpper(country.s)) # "" THEN ContinentTable(ToUpper(country.s))
  ELSE "Unknown"

\* the number of elements of q that satisfy P
CountOf(q, P(_)) == Len(SelectSeq(q, P))

\* the dur values of rows, in order
DursOf(rows) == [i \in DOMAIN rows |-> rows[i].dur.n]

\* percentile_disc(p / 100) within group (order by dur) over an ascending
\* sample: the first value whose position reaches the fraction, null for no row
percentile_disc(sorted, p) ==
  IF Len(sorted) = 0 THEN Null
  ELSE Num(sorted[Max(1, CeilDiv(p * Len(sorted), 100))])

\* Number(v || 0)
NumberOr0(v) == IF Truthy(v) THEN v.n ELSE 0

\* the case expressions of qDurHist: bucket b of a dur, null in no bucket
InBucketSql(dur, b) ==
  /\ dur.k = "num"
  /\ dur.n >= HIST_EDGES[b]
  /\ b = Len(HIST_EDGES) \/ dur.n < HIST_EDGES[b + 1]

\* coalesce(country, 'Unknown')
CountryKeySql(r) == IF r.country = Null THEN "Unknown" ELSE r.country.s

\* the keys of the object dbReadStats returns
DbStatsFields ==
  {"from", "to", "windowDays", "total", "uniques", "osTypes", "extTypes", "vscodeTypes",
   "daily", "dailyOs", "byEvent", "byOs", "byExt", "byVscode", "hourly", "hourlyVisitors",
   "dow", "runs", "errors", "durations", "exitCodes", "outputBuckets", "interactiveRate",
   "truncationRate", "topExceptions", "geo", "activeSessions", "installsTotal",
   "installsWindow", "sessionsRecent", "dailyLearningOutcomes", "sessions", "tables"}

\* q in the order of Before (a strict weak order), rows that tie in the
\* order they have in q
SortedBy(q, Before(_, _)) ==
  LET pos(i) == 1 + Cardinality({j \in DOMAIN q :
                      Before(q[j], q[i]) \/ (~Before(q[i], q[j]) /\ j < i)})
  IN  [p \in DOMAIN q |-> q[CHOOSE i \in DOMAIN q : pos(i) = p]]

\* the first n elements of q
Limit(q, n) == SubSeq(q, 1, Min(n, Len(q)))

\* qActive: the sessions with a row in the 10 minutes before now, none of
\* these rows a completion
activeSessions(now) ==
  LET recent == SelectSeq(store, LAMBDA r : r.sid # Null /\ r.t >= now - 600000)
      ids == {recent[i].sid : i \in DOMAIN recent}
  IN  Cardinality({id \in ids :
        ~\E i \in DOMAIN recent : recent[i].sid = id /\ recent[i].evt = "java.run.completed"})

\* limit 100 of qRecentSessions
RecentLimit == 100

\* qRecentSessions and the sessionsRecent of the result, over the rows of the
\* window.  any_value(anon) is taken to be the anon of the session's first row.
sessionsRecent(rows) ==
  LET withSid == SelectSeq(rows, LAMBDA r : r.sid # Null)
      ids == {withSid[i].sid : i \in DOMAIN withSid}
      Of(id) == SelectSeq(withSid, LAMBDA r : r.sid = id)
      MaxOf(S) == CHOOSE x \in S : \A y \in S : y <= x
      MinOf(S) == CHOOSE x \in S : \A y \in S : x <= y
      Times(id) == {Of(id)[i].t : i \in DOMAIN Of(id)}
      Exits(id) == {Of(id)[i].exit.n : i \in {j \in DOMAIN Of(id) : Of(id)[j].exit # Null}}
      Durs(id) == {Of(id)[i].dur.n : i \in {j \in DOMAIN Of(id) : Of(id)[j].dur # Null}}
      exit_code(id) == IF Exits(id) = {} THEN 0 - 1 ELSE MaxOf(Exits(id))
      Summary(id) ==
        [id |-> id.s,
         student |-> Of(id)[1].anon,
         startedAt |-> MinOf(Times(id)),
         lastAt |-> MaxOf(Times(id)),
         completed |-> \E i \in DOMAIN Of(id) : Of(id)[i].evt = "java.run.completed",
         exit |-> IF exit_code(id) # 0 THEN exit_code(id) ELSE 0 - 1,
         durationMs |-> IF Durs(id) = {} THEN 0 ELSE MaxOf(Durs(id)),
         interactive |-> \E i \in DOMAIN Of(id) : Of(id)[i].inter = Bool(TRUE)]
      RECURSIVE AsSeq(_)
      AsSeq(S) == IF S = {} THEN <<>>
                  ELSE LET id == CHOOSE x \in S : TRUE
                       IN  <<Summary(id)>> \o AsSeq(S \ {id})
  IN  Limit(SortedBy(AsSeq(ids), LAMBDA a, b : a.lastAt > b.lastAt), RecentLimit)

\* const mask = (anon) => ...; the em dash is written --
mask(anon) ==
  IF anon = "" \/ Len(anon) < 6 THEN "Student #--"
  ELSE "Student #" \o SubSeq(anon, Len(anon) - 5, Len(anon))

\* limit 20 of sqlSuccessTop and of sqlFrustratedTop
TopLimit == 20

\* order by inter desc nulls last, dur desc nulls last (descending), or
\* order by inter asc nulls last, dur asc nulls last
RankedBefore(a, b, descending) ==
  LET first == IF descending THEN Bool(TRUE) ELSE Bool(FALSE)
      InterRank(r) == IF r.inter = Null THEN 2 ELSE IF r.inter = first THEN 0 ELSE 1
      DurBefore == /\ a.dur # Null
                   /\ \/ b.dur = Null
                      \/ IF descending THEN a.dur.n > b.dur.n ELSE a.dur.n < b.dur.n
  IN  \/ InterRank(a) < InterRank(b)
      \/ InterRank(a) = InterRank(b) /\ DurBefore

\* sqlSuccessTop (code 0, descending) and sqlFrustratedTop (code 130,
\* ascending) with the successTop and frustratedTop of the result
rankedTop(rows, code, descending) ==
  LET hit == SelectSeq(rows, LAMBDA r : r.evt = "java.run.completed" /\ r.exit = Num(code))
      top == Limit(SortedBy(hit, LAMBDA a, b : RankedBefore(a, b, descending)), TopLimit)
  IN  [i \in DOMAIN top |->
         [student |-> mask(top[i].anon),
          ts |-> top[i].t,
          durationMs |-> NumberOr0(top[i].dur),
          interactive |-> top[i].inter = Bool(TRUE),
          exit |-> IF Truthy(top[i].exit) THEN top[i].exit.n ELSE code]]

\* count(*) in place of count(distinct anon)
qTotals_perEvent(rows) == [total |-> Len(rows), uniques |-> Len(rows)]

\* qTotals: count(*) as total, count(distinct anon) as uniques
qTotals(rows) ==
  [total |-> Len(rows), uniques |-> Cardinality({rows[i].anon : i \in DOMAIN rows})]

\* dbReadStats(windowDays, fromS, toS) over the rows of the Store, at time now
dbReadStats(fromS, toS, now) ==
  LET w == WindowOf(fromS, toS, now)
      rows == SelectSeq(store, LAMBDA r : InWindow(r, w))
      started == CountOf(rows, LAMBDA r : r.evt = "java.run.started")
      done == SelectSeq(rows, LAMBDA r : r.evt = "java.run.completed")
      compileErr == CountOf(rows, LAMBDA r : r.evt = "java.run.error"
                                              /\ r.phase = Str("compile"))
      runtimeErr == CountOf(rows, LAMBDA r : r.evt = "java.run.error"
                                              /\ r.phase.k = "str"
                                              /\ r.phase # Str("compile"))
      sample == SortAsc(DursOf(SelectSeq(done, LAMBDA r : r.dur # Null)))
      keys == {CountryKeySql(rows[i]) : i \in DOMAIN rows}
      byCountry ==
        [k \in keys |->
           [hits |-> CountOf(rows, LAMBDA r : CountryKeySql(r) = k),
            visitors |-> Cardinality({rows[i].anon : i \in
                           {j \in DOMAIN rows : CountryKeySql(rows[j]) = k}})]]
      contOf == [k \in keys |-> continentOf(IF k = "Unknown" THEN Undef ELSE Str(k))]
      SumOver(K, f(_)) ==
        LET RECURSIVE S(_)
            S(R) == IF R = {} THEN 0
                    ELSE LET x == CHOOSE y \in R : TRUE IN f(x) + S(R \ {x})
        IN  S(K)
      byContinent ==
        [c \in {contOf[k] : k \in keys} |->
           [hits |-> SumOver({k \in keys : contOf[k] = c}, LAMBDA k : byCountry[k].hits),
            visitors |-> SumOver({k \in keys : contOf[k] = c},
                                 LAMBDA k : byCountry[k].visitors)]]
  IN  [fields |-> DbStatsFields,
       total |-> qTotals(rows).total,
       uniques |-> qTotals(rows).uniques,
       runs |-> [started |-> started, completed |-> Len(done)],
       errors |-> [compile |-> compileErr, runtime |-> runtimeErr,
                   compileRate |-> IF started # 0 THEN Rate(compileErr, started)
                                   ELSE Rate(0, 1),
                   runtimeRate |-> IF started # 0 THEN Rate(runtimeErr, started)
                                   ELSE Rate(0, 1)],
       durations |-> [count |-> Len(sample),
                      median |-> NumberOr0(percentile_disc(sample, 50)),
                      p90 |-> NumberOr0(percentile_disc(sample, 90)),
                      hist |-> [b \in DOMAIN HIST_EDGES |->
                                  CountOf(done, LAMBDA r : InBucketSql(r.dur, b))]],
       geo |-> [byCountry |-> byCountry, byContinent |-> byContinent],
       activeSessions |-> activeSessions(now),
       sessionsRecent |-> sessionsRecent(rows),
       sessions |-> [successTop |-> rankedTop(rows, 0, TRUE),
                     frustratedTop |-> rankedTop(rows, 130, FALSE)]]

\* (e.country || '-').toUpperCase()
CountryKeyFile(e) == IF Truthy(e.country) THEN ToUpper(e.country.s) ELSE "-"

\* CONTINENT[country] || 'UN'
ContinentFile(key) == IF ContinentTable(key) # "" THEN ContinentTable(key) ELSE "UN"

\* the visitor counting of the loop of readWindowStats.  known is the content
\* of the sets global['c:' + country] and global['t:' + continent], as pairs
\* of key and anon; marks says of each event whether it incremented
\* byCountry[country].visitors (c) and byContinent[cont].visitors (t).
RECURSIVE VisitorMarks(_, _)
VisitorMarks(events, known) ==
  IF Len(events) = 0 THEN [marks |-> <<>>, seen |-> known]
  ELSE LET e == Head(events)
           keyC == "c:" \o CountryKeyFile(e)
           keyT == "t:" \o ContinentFile(CountryKeyFile(e))
           known1 == IF e.anon # "" THEN known \cup {<<keyC, e.anon>>, <<keyT, e.anon>>}
                     ELSE known
           rest == VisitorMarks(Tail(events), known1)
       IN  [marks |-> <<[c |-> e.anon # "" /\ <<keyC, e.anon>> \notin known,
                         t |-> e.anon # "" /\ <<keyT, e.anon>> \notin known]>>
                        \o rest.marks,
            seen |-> rest.seen]

\* the index taken as Math.floor((p / 100) * sorted.length)
percentile_floor(sorted, p) ==
  IF Len(sorted) = 0 THEN 0
  ELSE LET idx == (p * Len(sorted)) \div 100
       IN  sorted[Max(0, Min(Len(sorted) - 1, idx)) + 1]

\* stats.js percentile(sorted, p)
percentile(sorted, p) ==
  IF Len(sorted) = 0 THEN 0
  ELSE LET idx == CeilDiv(p * Len(sorted), 100) - 1
       IN  sorted[Max(0, Min(Len(sorted) - 1, idx)) + 1]

\* Number(e.m?.durationMs) || 0
DurOr0(e) == IF e.dur.k = "num" THEN e.dur.n ELSE 0

\* histEdges.findIndex(...) of readWindowStats, -1 replaced by the last index
HistIndex(d) ==
  LET hits == {i \in 1..(Len(HIST_EDGES) - 1) : d >= HIST_EDGES[i] /\ d < HIST_EDGES[i + 1]}
  IN  IF hits = {} THEN Len(HIST_EDGES)
      ELSE CHOOSE i \in hits : \A j \in hits : i <= j

\* the keys of the object readWindowStats returns, which are also the keys
\* of the object the catch of GET /stats returns
FileStatsFields ==
  {"from", "to", "windowDays", "total", "uniques", "osTypes", "extTypes", "vscodeTypes",
   "daily", "dailyOs", "byEvent", "byOs", "byExt", "byVscode", "hourly", "hourlyVisitors",
   "dow", "runs", "errors", "durations", "exitCodes", "outputBuckets", "interactiveRate",
   "truncationRate", "topExceptions", "geo", "tables"}

\* readWindowStats() over the events of the window's json files, with the
\* sets of the global object as known: the result and the sets afterwards
readWindowStats(events, known) ==
  LET started == CountOf(events, LAMBDA e : e.evt = "java.run.started")
      done == SelectSeq(events, LAMBDA e : e.evt = "java.run.completed")
      errs == SelectSeq(events, LAMBDA e : e.evt = "java.run.error")
      compileErr == CountOf(errs, LAMBDA e : e.phase = Str("compile"))
      runtimeErr == Len(errs) - compileErr
      positive == SelectSeq(done, LAMBDA e : DurOr0(e) > 0)
      durations == SortAsc([i \in DOMAIN positive |-> DurOr0(positive[i])])
      vm == VisitorMarks(events, known)
      keys == {CountryKeyFile(events[i]) : i \in DOMAIN events}
      conts == {ContinentFile(k) : k \in keys}
      compRateDen == Max(1, started)
  IN  [seen |-> vm.seen,
       res |->
         [fields |-> FileStatsFields,
          total |-> Len(events),
          uniques |-> Cardinality({events[i].anon : i \in DOMAIN events} \ {""}),
          runs |-> [started |-> started, completed |-> Len(done)],
          errors |-> [compile |-> compileErr, runtime |-> runtimeErr,
                      compileRate |-> Rate(compileErr, compRateDen),
                      runtimeRate |-> Rate(runtimeErr, compRateDen)],
          durations |-> [count |-> Len(durations),
                         median |-> percentile(durations, 50),
                         p90 |-> percentile(durations, 90),
                         hist |-> [b \in DOMAIN HIST_EDGES |->
                                     Cardinality({i \in DOMAIN durations :
                                                    HistIndex(durations[i]) = b})]],
          geo |->
            [byCountry |->
               [k \in keys |->
                  [hits |-> CountOf(events, LAMBDA e : CountryKeyFile(e) = k),
                   visitors |-> Cardinality({i \in DOMAIN events :
                                  CountryKeyFile(events[i]) = k /\ vm.marks[i].c})]],
             byContinent |->
               [c \in conts |->
                  [hits |-> CountOf(events,
                                    LAMBDA e : ContinentFile(CountryKeyFile(e)) = c),
                   visitors |-> Cardinality({i \in DOMAIN events :
                                  ContinentFile(CountryKeyFile(events[i])) = c
                                  /\ vm.marks[i].t})]]]]]

\* the object the catch of GET /stats returns
FallbackStats ==
  [fields |-> FileStatsFields, total |-> 0, uniques |-> 0,
   runs |-> [started |-> 0, completed |-> 0],
   errors |-> [compile |-> 0, runtime |-> 0, compileRate |-> Rate(0, 1),
               runtimeRate |-> Rate(0, 1)],
   durations |-> [count |-> 0, median |-> 0, p90 |-> 0, hist |-> <<>>],
   geo |-> [byCountry |-> <<>>, byContinent |-> <<>>]]

\* what one GET /stats did: the handler (via), where the body came from
\* (source), the query's from and to, and the reply
StatsReply(via, source, q, status, body) ==
  [via |-> via, source |-> source, from |-> q.from, to |-> q.to, status |-> status,
   body |-> body]

NoStats == [via |-> "none"]

\* dist/server.js, app.get('/stats'); fails: a query of dbReadStats rejects
StatsGet(q, fails, now) ==
  IF ~dbOn
  THEN stats' = StatsReply("dist", "none", q, 503, [fields |-> {"error", "message"}])
  ELSE IF fails
  THEN stats' = StatsReply("dist", "fallback", q, 200, FallbackStats)
  ELSE stats' = StatsReply("dist", "db", q, 200, dbReadStats(q.from, q.to, now))

\* src/server.ts, app.get('/stats')
StatsGetSrc(q, fails, now) ==
  IF dbOn
  THEN /\ stats' = IF fails THEN StatsReply("src", "fallback", q, 200, FallbackStats)
                   ELSE StatsReply("src", "db", q, 200, dbReadStats(q.from, q.to, now))
       /\ UNCHANGED seen
  ELSE \E r \in {readWindowStats(sink, seen)} :
         /\ stats' = StatsReply("src", "file", q, 200, r.res)
         /\ seen' = r.seen

---------------------------------------------------------------------------
(* GET /stats over a table of events.  The same events are the rows of the
   Store, when it is configured, and the lines of the files of the window. *)

MaxRows == 2

\* the time of the requests
Now == DateMs("1970-01-06T00:00:00Z")

Noon3 == DateMs("1970-01-03T12:00:00Z")

SampleRows ==
  {StatRow(Noon3.n, Hex32, "java.run.started", Str("US"), Null, Null),
   StatRow(DateMs("1970-01-03T23:59:59Z").n + 500, Hex32, "java.run.completed",
           Str("US"), Num(1500), Null),
   StatRow(DateMs("1970-01-03T00:00:00Z").n, OtherHex32, "java.run.completed",
           Str("GB"), Num(0 - 1), Null),
   StatRow(DateMs("1970-01-02T23:59:59Z").n + 500, OtherHex32, "java.run.completed",
           Str("FR"), Num(0), Null),
   StatRow(Noon3.n, Hex32, "java.run.completed", Str("XX"), Null, Null),
   StatRow(Noon3.n, OtherHex32, "java.run.completed", Str("CA"), Num(120000), Null),
   StatRow(DateMs("1970-01-04T00:00:00Z").n, Hex32, "java.run.error", Str("CA"), Null,
           Str("compile")),
   StatRow(Noon3.n, OtherHex32, "java.run.error", Null, Null, Str("runtime")),
   StatRow(Noon3.n, Hex32, "java.run.error", Str("US"), Null, Null)}

\* five completed runs, in the order they were recorded
FiveRuns ==
  [i \in 1..5 |-> StatRow(Noon3.n + i, Hex32, "java.run.completed", Str("US"),
                          Num(<<30, 10, 50, 20, 40>>[i]), Null)]

SampleTables == SeqsUpTo(SampleRows, MaxRows) \cup {FiveRuns}

\* the from and to of the query string
StatsQueries ==
  {[from |-> Undef, to |-> Undef],
   [from |-> Str("1970-01-03"), to |-> Str("1970-01-03")],
   [from |-> Str("1970-01-02"), to |-> Str("1970-01-04")],
   [from |-> Str("1970-01-04"), to |-> Str("1970-01-02")],
   [from |-> Str("1970-01-03"), to |-> Undef],
   [from |-> Str("yesterday"), to |-> Str("1970-01-03")]}

InitStats ==
  /\ \E table \in SampleTables :
       /\ sink = table
       /\ \/ dbOn = TRUE /\ store = table
          \/ dbOn = FALSE /\ store = <<>>
  /\ probe = IdleProbe
  /\ geoProbe = IdleGeoProbe
  /\ geoLoaded = FALSE
  /\ served = 0
  /\ last = NotHandled
  /\ seen = {}
  /\ inflight = <<>>
  /\ stats = NoStats

\* one GET /stats of the built server; a query can reject only if it is made
StatsDist ==
  \E q \in StatsQueries, fails \in BOOLEAN :
    /\ fails => dbOn
    /\ StatsGet(q, fails, Now.n)
    /\ UNCHANGED <<probe, geoProbe, dbOn, geoLoaded, store, sink, served, last, seen,
                  inflight>>

\* one GET /stats of the source server
StatsSrc ==
  \E q \in StatsQueries, fails \in BOOLEAN :
    /\ fails => dbOn
    /\ StatsGetSrc(q, fails, Now.n)
    /\ UNCHANGED <<probe, geoProbe, dbOn, geoLoaded, store, sink, served, last,
                  inflight>>

NextStats == StatsDist \/ StatsSrc

SpecStats == InitStats /\ [][NextStats]_vars

---------------------------------------------------------------------------
(* GET /stats over tables of session events *)

\* five and fifteen minutes before the requests
Ago5 == Num(Now.n - 300000)

Ago15 == Num(Now.n - 900000)

SessionRows ==
  {SessRow(StatRow(Noon3.n, Hex32, "java.run.started", Str("US"), Null, Null),
           Str("s1"), Null, Null),
   SessRow(StatRow(Ago5.n, Hex32, "java.run.started", Str("US"), Null, Null),
           Str("s1"), Null, Null),
   SessRow(StatRow(Ago15.n, Hex32, "java.run.completed", Str("US"), Num(1500), Null),
           Str("s1"), Num(0), Bool(TRUE)),
   SessRow(StatRow(Ago5.n + 1, Hex32, "java.run.completed", Str("US"), Num(700), Null),
           Str("s1"), Num(130), Bool(FALSE)),
   SessRow(StatRow(Ago5.n, OtherHex32, "java.run.completed", Str("GB"), Num(4000), Null),
           Str("s2"), Num(0), Bool(FALSE)),
   SessRow(StatRow(Ago15.n, OtherHex32, "java.run.error", Str("GB"), Null, Str("runtime")),
           Str("s2"), Num(1), Null),
   SessRow(StatRow(Ago5.n, Hex32, "java.run.completed", Str("US"), Null, Null),
           Null, Num(0), Null),
   SessRow(StatRow(Ago15.n, OtherHex32, "java.run.completed", Str("GB"), Null, Null),
           Null, Num(130), Null),
   SessRow(StatRow(Ago5.n, OtherHex32, "java.run.completed", Str("GB"), Num(900), Null),
           Null, Num(130), Bool(TRUE)),
   SessRow(StatRow(Ago15.n, Hex32, "java.run.completed", Str("US"), Num(2500), Null),
           Null, Num(0), Bool(TRUE))}

\* more successful runs than a ranked list takes
ManyRuns ==
  [i \in 1..(TopLimit + 1) |->
     SessRow(StatRow(Noon3.n + i, Hex32, "java.run.completed", Str("US"),
                     Num(100 * ((7 * i) % (TopLimit + 1))), Null),
             Null, Num(0), Bool(i % 2 = 0))]

SessionTables == SeqsUpTo(SessionRows, MaxRows) \cup {ManyRuns}

InitSess ==
  /\ \E table \in SessionTables :
       /\ sink = table
       /\ \/ dbOn = TRUE /\ store = table
          \/ dbOn = FALSE /\ store = <<>>
  /\ probe = IdleProbe
  /\ geoProbe = IdleGeoProbe
  /\ geoLoaded = FALSE
  /\ served = 0
  /\ last = NotHandled
  /\ seen = {}
  /\ inflight = <<>>
  /\ stats = NoStats

SpecSess == InitSess /\ [][NextStats]_vars

---------------------------------------------------------------------------
(* GET /stats of the built server with the await of dbReadStats as a step of
   its own: the handler runs up to the await, and goes on when the Store has
   answered or rejected the queries. *)

InitLive ==
  /\ \E table \in SampleTables :
       /\ sink = table
       /\ \/ dbOn = TRUE /\ store = table
          \/ dbOn = FALSE /\ store = <<>>
  /\ probe = IdleProbe
  /\ geoProbe = IdleGeoProbe
  /\ geoLoaded = FALSE
  /\ served = 0
  /\ last = NotHandled
  /\ seen = {}
  /\ inflight = <<>>
  /\ stats \in {StatsReply("dist", "arrived", q, 0, [fields |-> {}]) : q \in StatsQueries}

\* the handler up to `await dbReadStats(...)`, or to its 503
StatsBegin ==
  /\ stats.source = "arrived"
  /\ IF dbOn THEN stats' = [stats EXCEPT !.source = "awaiting"]
     ELSE StatsGet([from |-> stats.from, to |-> stats.to], FALSE, Now.n)
  /\ UNCHANGED <<probe, geoProbe, dbOn, geoLoaded, store, sink, served, last, seen,
                inflight>>

\* the Store answers the queries and the handler returns the result, or it
\* rejects one and the catch returns the fallback
StatsSettle ==
  \E fails \in BOOLEAN :
    /\ stats.source = "awaiting"
    /\ StatsGet([from |-> stats.from, to |-> stats.to], fails, Now.n)
    /\ UNCHANGED <<probe, geoProbe, dbOn, geoLoaded, store, sink, served, last, seen,
                  inflight>>

NextLive == StatsBegin \/ StatsSettle

\* the server runs the handler of a request it has received; nothing makes
\* the Store answer
SpecLive == InitLive /\ [][NextLive]_vars /\ WF_vars(StatsBegin)

---------------------------------------------------------------------------
(* POST /t of the built server, several requests in flight.  A handler runs
   without interruption from one await to the next; while it awaits
   dbInsertEvent, the Store performs the insert and other handlers run. *)

\* the handler counts every event as accepted
Counted_alwaysAccepted(req) ==
  IF req.phase # "settled" THEN req
  ELSE [req EXCEPT !.i = @ + 1, !.accepted = @ + 1]

\* the continuation of `await dbInsertEvent(ev, geo)`: accepted++ after the
\* insert, skipped++ in the catch
Counted(req) ==
  IF req.phase # "settled" THEN req
  ELSE IF req.ok THEN [req EXCEPT !.i = @ + 1, !.accepted = @ + 1]
  ELSE [req EXCEPT !.i = @ + 1, !.skipped = @ + 1]

\* the loop up to its next await: the events that normalizeEvent or
\* validateEvent turn down are skipped
RECURSIVE SkipInvalid(_)
SkipInvalid(req) ==
  IF req.i > Len(req.batch) THEN req
  ELSE LET ev == normalizeEvent(req.batch[req.i])
       IN  IF ev.nul \/ ~validateEvent(ev)
           THEN SkipInvalid([req EXCEPT !.i = @ + 1, !.skipped = @ + 1])
           ELSE req

InitConc ==
  /\ inflight \in [1..MaxRequests ->
                     {[batch |-> b, i |-> 1, phase |-> "received", ok |-> FALSE,
                       accepted |-> 0, skipped |-> 0, rows |-> <<>>] :
                        b \in {ExampleBatch, <<EarlySeconds>>, <<BadAnon, ValidMs>>}}]
  /\ dbOn = TRUE
  /\ store = <<>>
  /\ sink = <<>>
  /\ probe = IdleProbe
  /\ geoProbe = IdleGeoProbe
  /\ geoLoaded = FALSE
  /\ served = 0
  /\ last = NotHandled
  /\ seen = {}
  /\ stats = NoStats

\* handler r runs to its next await, or to its return
ConcRun ==
  \E r \in DOMAIN inflight :
    /\ inflight[r].phase \in {"received", "settled"}
    /\ \E next \in {SkipInvalid(Counted(inflight[r]))} :
         inflight' = [inflight EXCEPT ![r] =
                        [next EXCEPT !.phase = IF next.i > Len(next.batch) THEN "returned"
                                               ELSE "awaiting"]]
    /\ UNCHANGED <<probe, geoProbe, dbOn, geoLoaded, store, sink, served, last, seen,
                   stats>>

\* the Store performs, or rejects, the insert handler r awaits
ConcInsert ==
  \E r \in DOMAIN inflight, queryFails \in BOOLEAN :
    /\ inflight[r].phase = "awaiting"
    /\ \E res \in {dbInsertEvent(normalizeEvent(inflight[r].batch[inflight[r].i]),
                                  EmptyGeo, queryFails)} :
         /\ store' = IF res.threw THEN store ELSE Append(store, res.row)
         /\ inflight' = [inflight EXCEPT ![r].phase = "settled", ![r].ok = ~res.threw,
                                         ![r].rows = IF res.threw THEN @
                                                     ELSE Append(@, res.row)]
    /\ UNCHANGED <<probe, geoProbe, dbOn, geoLoaded, sink, served, last, seen, stats>>

NextConc == ConcRun \/ ConcInsert

SpecConc == InitConc /\ [][NextConc]_vars

---------------------------------------------------------------------------
(* Properties.  The vocabulary of the claims, stated apart from the code. *)

LowerHex32(s) ==
  Len(s) = 32 /\ \A i \in 1..Len(s) :
    CharAt(s, i) \in {"0", "1", "2", "3", "4", "5", "6", "7", "8", "9",
                      "a", "b", "c", "d", "e", "f"}

ValidAnon(v) == IsString(v) /\ LowerHex32(v.s)

SupportedEvt(v) == IsString(v) /\ v.s \in EVENTS

AtMost30(v) == IsString(v) /\ Len(v.s) <= 30

FiniteNumber(v) == v.k \in {"num", "neghuge"}

\* the number a raw t stands for: itself, or Number(t) for a string
NumberOfT(v) == IF IsString(v) THEN NumberOfString(v.s) ELSE v

\* position i holds the first recognized header of q that carries a value
FirstCarrying(req, q, i) ==
  /\ Truthy(req.headers[q[i]])
  /\ \A j \in 1..(i - 1) : ~Truthy(req.headers[q[j]])

Carries(req, q) == \E i \in DOMAIN q : Truthy(req.headers[q[i]])

Answered == last.handler # "none"

Processed == Answered /\ last.reply.status = 200

Rejected ==
  /\ last.reply.status # 200
  /\ last.outcomes = <<>> /\ last.rows = <<>> /\ last.sunk = <<>>
  /\ last.reply.accepted = 0 /\ last.reply.skipped = 0

\* C1: in a request whose envelope is accepted, each event of the batch (a
\* single event being a batch of one) is counted accepted exactly when
\* normalizeEvent returns non-null, validateEvent returns true and its own
\* Store insert succeeds, and skipped otherwise; accepted + skipped is the
\* batch length.
C1_PerEventAccounting ==
  Processed =>
    LET b == BatchOf(last.body)
        o == last.outcomes
    IN  /\ Len(o) = Len(b)
        /\ \A i \in 1..Len(b) :
             /\ o[i].result = "accepted" <=>
                  /\ ~normalizeEvent(b[i]).nul
                  /\ validateEvent(normalizeEvent(b[i]))
                  /\ o[i].insert = "ok"
             /\ o[i].result \in {"accepted", "skipped"}
        /\ last.reply.accepted = Cardinality({i \in 1..Len(b) : o[i].result = "accepted"})
        /\ last.reply.skipped = Cardinality({i \in 1..Len(b) : o[i].result = "skipped"})
        /\ last.reply.accepted + last.reply.skipped = Len(b)
        /\ Len(last.rows) = last.reply.accepted

C3_StoreUnavailable ==
  Answered /\ ~dbOn => last.reply.status = 503 /\ Rejected /\ sink = <<>>

C6_ValidateRechecks ==
  probe.stage \in {"checked", "validated"} =>
    (probe.ok <=>
       /\ ~probe.out.nul
       /\ FiniteNumber(probe.out.t)
       /\ ValidAnon(probe.out.anon) /\ SupportedEvt(probe.out.evt)
       /\ AtMost30(probe.out.os) /\ AtMost30(probe.out.ext) /\ AtMost30(probe.out.vscode))

\* C7: an event whose t is an ISO date-time string, with a valid anon and
\* evt, is accepted by ingest and stored with the epoch-millisecond timestamp
\* the string denotes.
C7_IsoTimestampStored ==
  Processed =>
    \A i \in 1..Len(last.outcomes) :
      LET e == BatchOf(last.body)[i]
          o == last.outcomes[i]
      IN  (/\ ~e.nul /\ e.t = Str(IsoText)
           /\ ValidAnon(e.anon) /\ SupportedEvt(e.evt)
           /\ o.insert # "threw")
          => (/\ o.result = "accepted"
              /\ o.insert = "ok" => o.row.t = IsoInstant.t)

\* C8: normalizeEvent takes t from a number or a numeric string, returns null
\* when the coerced value is not a finite number, multiplies it by 1000
\* exactly when it is below 10^12, and leaves a t of 10^12 or more as it is.
C8_TimestampScaling ==
  probe.stage = "normalized" /\ ~probe.raw.nul =>
    LET c == NumberOfT(probe.raw.t)
    IN  /\ ~FiniteNumber(c) => probe.out.nul
        /\ ~probe.out.nul =>
             probe.out.t = (IF c.k = "neghuge" THEN NegInf
                            ELSE IF c.n < MsThreshold THEN Num(c.n * 1000)
                            ELSE Num(c.n))

C8_Witness ==
  /\ probe.stage = "normalized"
  /\ probe.raw.t = Num(MsThreshold)
  /\ ~probe.out.nul
  /\ probe.out.t = Num(MsThreshold)

\* C9: whenever a recognized provider header carrying a country is on the
\* request, resolveGeo returns that country (of the first such header,
\* upper-cased) and the geo database lookup is not consulted, whatever the
\* client IP is.
C9_HeaderBeforeLookup ==
  geoProbe.stage = "geo" =>
    \A i \in DOMAIN CountryHeaders :
      FirstCarrying(geoProbe.req, CountryHeaders, i) =>
        /\ ~geoProbe.geo.consulted
        /\ geoProbe.geo.country = ToUpper(geoProbe.req.headers[CountryHeaders[i]].s)

C9_Witness ==
  /\ geoProbe.stage = "geo"
  /\ geoLoaded
  /\ geoProbe.ip = Str("203.0.113.7")
  /\ geoProbe.req.headers["x-country-code"] = Str("DE")
  /\ geoProbe.geo.country = "DE"
  /\ ~geoProbe.geo.consulted

\* C10, as stated: whenever a recognized country header is present the
\* resolved country is its upper-cased value, and whenever a recognized region
\* header is present the resolved region is its upper-cased value.
C10_CountryAndRegionSeparately ==
  geoProbe.stage = "geo" =>
    /\ \A i \in DOMAIN CountryHeaders :
         FirstCarrying(geoProbe.req, CountryHeaders, i) =>
           geoProbe.geo.country = ToUpper(geoProbe.req.headers[CountryHeaders[i]].s)
    /\ \A i \in DOMAIN RegionHeaders :
         FirstCarrying(geoProbe.req, RegionHeaders, i) =>
           geoProbe.geo.region = ToUpper(geoProbe.req.headers[RegionHeaders[i]].s)

\* C10, amended: whenever a recognized country header is present the resolved
\* country is its upper-cased value and the resolved region is the upper-cased
\* value of the recognized region header, or "" when there is none; when no
\* recognized country header is present the region headers are ignored, and
\* country and region are what the geo database lookup gives for the client IP.
C10_RegionOnlyWithCountry ==
  geoProbe.stage = "geo" =>
    /\ \A i \in DOMAIN CountryHeaders :
         FirstCarrying(geoProbe.req, CountryHeaders, i) =>
           /\ geoProbe.geo.country = ToUpper(geoProbe.req.headers[CountryHeaders[i]].s)
           /\ \A j \in DOMAIN RegionHeaders :
                FirstCarrying(geoProbe.req, RegionHeaders, j) =>
                  geoProbe.geo.region = ToUpper(geoProbe.req.headers[RegionHeaders[j]].s)
           /\ ~Carries(geoProbe.req, RegionHeaders) => geoProbe.geo.region = ""
    /\ ~Carries(geoProbe.req, CountryHeaders) =>
         /\ geoProbe.geo.consulted
         /\ geoProbe.geo.country = lookup(geoProbe.ip, geoLoaded).country
         /\ geoProbe.geo.region = lookup(geoProbe.ip, geoLoaded).region

C10_Witness ==
  /\ geoProbe.stage = "geo"
  /\ geoProbe.req.headers["x-geo-country"] = Str("gB")
  /\ geoProbe.req.headers["cf-ipcountry"] = Undef
  /\ geoProbe.req.headers["x-geo-region"] = Str("ca")
  /\ geoProbe.geo.country = "GB"
  /\ geoProbe.geo.region = "CA"

\* the candidates of the client address in their priority order, absent and
\* empty ones dropped
Candidates(req) ==
  LET hops == IF Truthy(req.headers["x-forwarded-for"])
              THEN LET parts == SplitComma(req.headers["x-forwarded-for"].s)
                   IN  [i \in DOMAIN parts |-> Str(Trim(parts[i]))]
              ELSE <<>>
      all == <<req.headers["cf-connecting-ip"], req.headers["x-client-ip"],
               req.headers["x-real-ip"]>> \o hops \o <<req.ip>>
  IN  SelectSeq(all, LAMBDA v : v.k = "str" /\ v.s # "")

\* C11: pickClientIp returns the first candidate, in the order
\* cf-connecting-ip, x-client-ip, x-real-ip, the hops of x-forwarded-for, the
\* peer address, that is not private (as isPrivate classifies it); the first
\* candidate if all are private; the peer address if there is no candidate.
\* For the forwarded-for chain 10.0.0.5, 203.0.113.7 it is 203.0.113.7.
C11_FirstPublicCandidate ==
  geoProbe.stage = "picked" =>
    LET c == Candidates(geoProbe.req)
        pub == {i \in 1..Len(c) : ~isPrivate(c[i])}
    IN  /\ pub # {} => \E i \in pub : /\ geoProbe.ip = c[i]
                                        /\ \A j \in pub : i <= j
        /\ pub = {} /\ Len(c) > 0 => geoProbe.ip = c[1]
        /\ Len(c) = 0 => geoProbe.ip = geoProbe.req.ip
        /\ (/\ geoProbe.req.headers["x-forwarded-for"] = Str("10.0.0.5, 203.0.113.7")
            /\ Len(c) = 2)
           => geoProbe.ip = Str("203.0.113.7")

C11_Witness ==
  /\ geoProbe.stage = "picked"
  /\ geoProbe.req.headers["x-forwarded-for"] = Str("10.0.0.5, 203.0.113.7")
  /\ geoProbe.req.headers["cf-connecting-ip"] = Str("10.0.0.5")
  /\ geoProbe.req.headers["x-real-ip"] = Undef
  /\ geoProbe.req.headers["x-client-ip"] = Undef
  /\ geoProbe.req.ip = Str("127.0.0.1")
  /\ geoProbe.ip = Str("203.0.113.7")

\* index of the first c in s, 0 if there is none
IndexOf(s, c) ==
  IF \E i \in 1..Len(s) : CharAt(s, i) = c
  THEN CHOOSE i \in 1..Len(s) : CharAt(s, i) = c /\ \A j \in 1..(i - 1) : CharAt(s, j) # c
  ELSE 0

FieldBefore(s, c) == IF IndexOf(s, c) = 0 THEN s ELSE SubSeq(s, 1, IndexOf(s, c) - 1)

FieldsAfter(s, c) == IF IndexOf(s, c) = 0 THEN "" ELSE SubSeq(s, IndexOf(s, c) + 1, Len(s))

\* the address classes named private: RFC1918, loopback, link-local (IPv4
\* 169.254/16, IPv6 fe80::/10) and IPv6 unique-local fc00::/7
InPrivateClasses(a) ==
  IF IndexOf(a, ":") = 0
  THEN LET o1 == DecValue(FieldBefore(a, "."))
           o2 == DecValue(FieldBefore(FieldsAfter(a, "."), "."))
       IN  \/ o1 = 10
           \/ o1 = 172 /\ o2 >= 16 /\ o2 <= 31
           \/ o1 = 192 /\ o2 = 168
           \/ o1 = 127
           \/ o1 = 169 /\ o2 = 254
  ELSE LET hx == ToLower(FieldBefore(a, ":"))
       IN  \/ a = "::1"
           \/ Len(hx) = 4 /\ SubSeq(hx, 1, 2) \in {"fc", "fd"}
           \/ Len(hx) = 4 /\ SubSeq(hx, 1, 2) = "fe" /\ CharAt(hx, 3) \in {"8", "9", "a", "b"}

\* C12: isPrivate says private of exactly the addresses of the private
\* classes (RFC1918, loopback, IPv4 and IPv6 link-local, IPv6 unique-local),
\* so pickClientIp returns no address of these classes while a candidate
\* outside them exists.
C12_PrivateClasses ==
  /\ geoProbe.stage = "classified" =>
        (geoProbe.private <=> InPrivateClasses(geoProbe.addr))
  /\ geoProbe.stage = "picked" =>
        LET c == Candidates(geoProbe.req)
        IN  (\E i \in 1..Len(c) : ~InPrivateClasses(c[i].s))
              => ~InPrivateClasses(geoProbe.ip.s)

\* the geo database has nothing for the address: the reader rejects it or
\* holds no record of it
Unresolvable(ip) == ReaderGet(ip.s).throws \/ ~ReaderGet(ip.s).found

\* C13: resolveGeo always returns strings for country and region, and when
\* no country header is present and the geo database is not loaded, the IP is
\* empty or unresolvable, or the lookup throws, it returns country "" and
\* region "".
C13_GeoDegradesToEmpty ==
  geoProbe.stage = "geo" =>
    /\ geoProbe.geo.country \in STRING /\ geoProbe.geo.region \in STRING
    /\ (/\ ~Carries(geoProbe.req, CountryHeaders)
        /\ \/ ~geoLoaded
           \/ ~Truthy(geoProbe.ip)
           \/ Unresolvable(geoProbe.ip))
       => geoProbe.geo.country = "" /\ geoProbe.geo.region = ""

C13_Witness ==
  /\ geoProbe.stage = "geo"
  /\ geoLoaded
  /\ ~Carries(geoProbe.req, CountryHeaders)
  /\ Carries(geoProbe.req, RegionHeaders)
  /\ geoProbe.ip = Str("not-an-ip")
  /\ ReaderGet(geoProbe.ip.s).throws
  /\ geoProbe.geo.consulted
  /\ geoProbe.geo.country = "" /\ geoProbe.geo.region = ""

DayOf(t) == t \div 86400000

IsCalendarDate(v) == IsString(v) /\ DateMs(v.s \o "T00:00:00Z").k = "num"

DayNumberOf(v) == DayOf(DateMs(v.s \o "T00:00:00Z").n)

ValidRange(f, t) ==
  IsCalendarDate(f) /\ IsCalendarDate(t) /\ DayNumberOf(f) <= DayNumberOf(t)

\* the events a query's window is to cover
Covered(r, f, t) ==
  IF ValidRange(f, t) THEN DayOf(r.t) >= DayNumberOf(f) /\ DayOf(r.t) <= DayNumberOf(t)
  ELSE r.t <= Now.n

\* stats holds the reply of a GET /stats that dbReadStats computed
FromStore == stats.via # "none" /\ stats.source = "db"

\* C15: a result of dbReadStats counts, in its totals and in its run and
\* duration aggregates alike, exactly the events of the UTC calendar days from
\* `from` through `to` when both are calendar dates with from <= to, and the
\* whole history up to now otherwise.
C15_WindowCoversDays ==
  FromStore =>
    LET rows == SelectSeq(store, LAMBDA r : Covered(r, stats.from, stats.to))
    IN  /\ stats.body.total = Len(rows)
        /\ stats.body.runs.started = CountOf(rows, LAMBDA r : r.evt = "java.run.started")
        /\ stats.body.runs.completed
             = CountOf(rows, LAMBDA r : r.evt = "java.run.completed")
        /\ stats.body.durations.count
             = CountOf(rows, LAMBDA r : r.evt = "java.run.completed" /\ r.dur # Null)

\* every count of a result is zero and every collection is empty
ZeroValued(b) ==
  /\ b.total = 0 /\ b.uniques = 0
  /\ b.runs.started = 0 /\ b.runs.completed = 0
  /\ b.errors.compile = 0 /\ b.errors.runtime = 0
  /\ b.errors.compileRate.num = 0 /\ b.errors.runtimeRate.num = 0
  /\ b.durations.count = 0 /\ b.durations.median = 0 /\ b.durations.p90 = 0
  /\ \A i \in DOMAIN b.durations.hist : b.durations.hist[i] = 0
  /\ DOMAIN b.geo.byCountry = {} /\ DOMAIN b.geo.byContinent = {}

\* the Store is configured and the query's window covers none of its events
NoEventMatches ==
  dbOn /\ \A i \in DOMAIN store : ~Covered(store[i], stats.from, stats.to)

\* C16: a GET /stats made while the Store is not configured, or whose query
\* failed, or whose window covers no event, is answered with a body that has
\* the fields of a successful result, every count zero and every collection
\* empty -- never with an error.
C16_ZeroValuedComplete ==
  stats.via # "none" /\ (~dbOn \/ stats.source = "fallback" \/ NoEventMatches) =>
    /\ stats.status = 200
    /\ stats.body.fields = DbStatsFields
    /\ ZeroValued(stats.body)

\* stats holds the reply of a GET /stats that readWindowStats computed
FromFiles == stats.via # "none" /\ stats.source = "file"

\* C17: an aggregation over the files that follows another one, with no event
\* recorded in between, returns the same per-country and per-continent hits
\* and visitor counts as the one before.
C17_CallsIndependent ==
  [][(FromFiles /\ FromFiles' /\ sink' = sink) => stats'.body.geo = stats.body.geo]_vars

\* the edges of the duration histogram
BucketEdges == <<0, 500, 1000, 3000, 10000, 30000, 60000, 120000>>

\* d lies in bucket b: [edge_b, edge_b+1), the last bucket unbounded above
InBucket(d, b) ==
  /\ d >= BucketEdges[b]
  /\ b < Len(BucketEdges) => d < BucketEdges[b + 1]

RECURSIVE SumSeq(_)
SumSeq(q) == IF Len(q) = 0 THEN 0 ELSE Head(q) + SumSeq(Tail(q))

\* the completed runs with a duration among the events an aggregation read:
\* the rows of the Store in the window of the queries, or the events of the
\* window's files
TimedRuns ==
  LET events == IF stats.source = "db"
                THEN SelectSeq(store, LAMBDA r :
                       InWindow(r, WindowOf(stats.from, stats.to, Now.n)))
                ELSE sink
  IN  SelectSeq(events, LAMBDA r : r.evt = "java.run.completed" /\ r.dur.k = "num")

\* C18: in a result of either aggregation, durations.count is the number of
\* completed runs with a non-null duration, each of the 8 buckets counts the
\* runs whose duration lies between its edges, and the buckets add up to
\* durations.count.
C18_HistogramPartition ==
  FromStore \/ FromFiles =>
    LET hist == stats.body.durations.hist
    IN  /\ Len(hist) = Len(BucketEdges)
        /\ stats.body.durations.count = Len(TimedRuns)
        /\ \A b \in DOMAIN hist : hist[b] = CountOf(TimedRuns, LAMBDA r : InBucket(r.dur.n, b))
        /\ SumSeq(hist) = stats.body.durations.count

\* the element of an ascending sample at the nearest rank of p percent, 0 for
\* an empty sample
NearestRank(sorted, p) ==
  LET n == Len(sorted)
      rank == CHOOSE r \in 0..n : 100 * r >= p * n /\ (r = 0 \/ 100 * (r - 1) < p * n)
      index == IF rank - 1 < 0 THEN 0 ELSE IF rank - 1 > n - 1 THEN n - 1 ELSE rank - 1
  IN  IF n = 0 THEN 0 ELSE sorted[index + 1]

\* q is in ascending order
Ascending(q) == \A i, j \in DOMAIN q : i < j => q[i] <= q[j]

\* q and r hold the same values the same number of times
SameSample(q, r) ==
  /\ Len(q) = Len(r)
  /\ \A x \in {q[i] : i \in DOMAIN q} \cup {r[i] : i \in DOMAIN r} :
       Cardinality({i \in DOMAIN q : q[i] = x}) = Cardinality({i \in DOMAIN r : r[i] = x})

\* the durations an aggregation takes into its sample: every non-null one of
\* the Store's window, every positive one of the files
SampleRuns ==
  IF stats.source = "db" THEN TimedRuns
  ELSE SelectSeq(TimedRuns, LAMBDA r : r.dur.n > 0)

\* C19: the median and p90 of a result are the elements at the nearest rank
\* of 50 and of 90 percent, index clamp(ceil(p/100 * n) - 1, 0, n - 1), in the
\* ascending order of the durations sampled, and 0 for an empty sample.
C19_NearestRank ==
  FromStore \/ FromFiles =>
    \A sorted \in {SortAsc(DursOf(SampleRuns))} :
      /\ Ascending(sorted) /\ SameSample(sorted, DursOf(SampleRuns))
      /\ stats.body.durations.median = NearestRank(sorted, 50)
      /\ stats.body.durations.p90 = NearestRank(sorted, 90)

\* the sample 30, 10, 50, 20, 40 has the median 30 and the p90 50
C19_Witness ==
  /\ FromFiles
  /\ DursOf(SampleRuns) = <<30, 10, 50, 20, 40>>
  /\ stats.body.durations.median = 30
  /\ stats.body.durations.p90 = 50

\* the fraction rate equals count / max(1, startedCount)
IsGuardedRate(rate, count, startedCount) ==
  /\ rate.den # 0
  /\ rate.num * (IF startedCount > 1 THEN startedCount ELSE 1) = count * rate.den

\* C20: in a result of either aggregation, errors.compileRate is errors.compile
\* divided by max(1, runs.started) and errors.runtimeRate is errors.runtime
\* divided by max(1, runs.started), also when no run was started.
C20_GuardedRates ==
  FromStore \/ FromFiles =>
    LET e == stats.body.errors
    IN  /\ IsGuardedRate(e.compileRate, e.compile, stats.body.runs.started)
        /\ IsGuardedRate(e.runtimeRate, e.runtime, stats.body.runs.started)

\* the rows of the Store in the window of the queries of the last GET /stats
WindowRows ==
  SelectSeq(store, LAMBDA r : InWindow(r, WindowOf(stats.from, stats.to, Now.n)))

\* the positions in WindowRows of the events of session id
EventsOf(id) == {i \in DOMAIN WindowRows : WindowRows[i].sid = Str(id)}

\* C21: sessionsRecent lists each session id of the window's events once and
\* no other; a session is completed iff one of its events is a run-completed
\* event; startedAt and lastAt are the least and the greatest timestamp of its
\* events; and for a completed session some completion event of it has the
\* exit code and the duration reported.
C21_SessionReconstruction ==
  FromStore =>
    LET list == stats.body.sessionsRecent
        ids == {WindowRows[i].sid.s : i \in {j \in DOMAIN WindowRows :
                                               WindowRows[j].sid # Null}}
    IN  /\ {list[k].id : k \in DOMAIN list} = ids
        /\ Len(list) = Cardinality(ids)
        /\ \A k \in DOMAIN list :
             LET E == EventsOf(list[k].id)
                 Done == {i \in E : WindowRows[i].evt = "java.run.completed"}
             IN  /\ list[k].completed <=> Done # {}
                 /\ \A i \in E : list[k].startedAt <= WindowRows[i].t
                                  /\ WindowRows[i].t <= list[k].lastAt
                 /\ \E i \in E : list[k].startedAt = WindowRows[i].t
                 /\ \E i \in E : list[k].lastAt = WindowRows[i].t
                 /\ Done # {} =>
                      \E i \in Done :
                        /\ WindowRows[i].exit # Null => list[k].exit = WindowRows[i].exit.n
                        /\ WindowRows[i].dur # Null
                             => list[k].durationMs = WindowRows[i].dur.n

\* the sessions of the Store that are active at Now: the most recent event in
\* the last 10 minutes, and no run-completed event
ActiveIds ==
  {id \in {store[i].sid : i \in DOMAIN store} \ {Null} :
     LET E == {i \in DOMAIN store : store[i].sid = id}
     IN  /\ \E i \in E : /\ store[i].t >= Now.n - 10 * 60 * 1000
                          /\ \A j \in E : store[j].t <= store[i].t
         /\ \A i \in E : store[i].evt # "java.run.completed"}

\* C22: activeSessions is the number of sessions whose most recent event lies
\* in the 10 minutes before now and that have no run-completed event, whatever
\* from and to the request gives.
C22_ActiveSessions == FromStore => stats.body.activeSessions = Cardinality(ActiveIds)

\* the Continent Mapper on the countries of the events probed; any other
\* code, and a missing country, map to Unknown
MapperOf(key) ==
  CASE key \in {"US", "CA"} -> "NA"
    [] key \in {"GB", "FR"} -> "EU"
    [] OTHER -> "Unknown"

\* the country an event is counted under
CountryOf(r) == IF r.country = Null THEN "Unknown" ELSE r.country.s

\* the sum of the hits, or of the visitors, of the entries K of a rollup
RECURSIVE GeoSum(_, _, _)
GeoSum(f, K, visitors) ==
  IF K = {} THEN 0
  ELSE LET k == CHOOSE x \in K : TRUE
       IN  (IF visitors THEN f[k].visitors ELSE f[k].hits) + GeoSum(f, K \ {k}, visitors)

RanksNoLater(a, b, descending) ==
  LET ia == IF a.interactive THEN 1 ELSE 0
      ib == IF b.interactive THEN 1 ELSE 0
  IN  IF descending
      THEN ia > ib \/ (ia = ib /\ a.durationMs >= b.durationMs)
      ELSE ia < ib \/ (ia = ib /\ a.durationMs <= b.durationMs)

\* a ranked list of the run-completed events of the window with exit code:
\* its size, its entries, their order and their masked visitor
IsRankedList(list, code, descending) ==
  LET hits == {i \in DOMAIN WindowRows : /\ WindowRows[i].evt = "java.run.completed"
                                         /\ WindowRows[i].exit = Num(code)}
  IN  /\ Len(list) = IF Cardinality(hits) < 20 THEN Cardinality(hits) ELSE 20
      /\ \A k \in DOMAIN list :
           /\ list[k].exit = code
           /\ \E i \in hits :
                /\ list[k].ts = WindowRows[i].t
                /\ list[k].student
                     = "Student #" \o SubSeq(WindowRows[i].anon, Len(WindowRows[i].anon) - 5,
                                             Len(WindowRows[i].anon))
           /\ \A i \in DOMAIN store : list[k].student # store[i].anon
      /\ \A k \in 1..(Len(list) - 1) : RanksNoLater(list[k], list[k + 1], descending)

\* C24: successTop holds run-completed events of the window with exit code 0
\* and frustratedTop those with exit code 130, at most 20 each, the first by
\* interactivity then duration descending and the second ascending, each
\* entry naming its visitor by the masked suffix of the anon only.
C24_RankedLists ==
  FromStore =>
    /\ IsRankedList(stats.body.sessions.successTop, 0, TRUE)
    /\ IsRankedList(stats.body.sessions.frustratedTop, 130, FALSE)

\* the window of a query's from and to
QueryWindow(q) == WindowOf(q.from, q.to, Now.n)

\* window v lies within window w
Within(v, w) == w.from <= v.from /\ v.to <= w.to

\* the uniques a GET /stats with query q returns for the Store as it is
UniquesFor(q) == dbReadStats(q.from, q.to, Now.n).uniques

\* C25: uniques is the number of distinct anons among the window's events, at
\* most total, and no greater than the uniques of any query whose window
\* contains this one.
C25_UniquesMonotone ==
  FromStore =>
    /\ stats.body.uniques = Cardinality({WindowRows[i].anon : i \in DOMAIN WindowRows})
    /\ stats.body.uniques <= stats.body.total
    /\ \A q \in StatsQueries :
         Within(QueryWindow(stats), QueryWindow(q)) => stats.body.uniques <= UniquesFor(q)

\* a window with one visitor within a wider window with two
C25_Witness ==
  /\ FromStore
  /\ stats.body.uniques = 1 /\ stats.body.total = 1
  /\ \E q \in StatsQueries :
       /\ Within(QueryWindow(stats), QueryWindow(q))
       /\ QueryWindow(q) # QueryWindow(stats)
       /\ UniquesFor(q) = 2

\* C26: every GET /stats is answered in the end, by the fallback if the
\* queries of the Store do not finish.
C26_StatsCompletes == <>(stats.status # 0)

\* the java.run.error events an aggregation read
ErrorEvents ==
  SelectSeq(IF stats.source = "db" THEN WindowRows ELSE sink,
            LAMBDA r : r.evt = "java.run.error")

\* C27: in a result of either aggregation, errors.compile is the number of
\* the window's java.run.error events whose phase is 'compile' and
\* errors.runtime the number of all its other java.run.error events, those
\* without a phase included.
C27_ErrorPhases ==
  FromStore \/ FromFiles =>
    /\ stats.body.errors.compile
         = CountOf(ErrorEvents, LAMBDA r : r.phase = Str("compile"))
    /\ stats.body.errors.runtime
         = CountOf(ErrorEvents, LAMBDA r : r.phase # Str("compile"))
    /\ stats.body.errors.compile + stats.body.errors.runtime = Len(ErrorEvents)

\* C28: the timestamp of every row a request inserted is the t that
\* normalizeEvent gave the event: the rescale from seconds to milliseconds is
\* not applied a second time.
C28_RescaledOnce ==
  Processed =>
    \A i \in 1..Len(last.outcomes) :
      last.outcomes[i].insert = "ok" => last.outcomes[i].row.t = last.outcomes[i].ev.t

\* every request in flight has returned
AllReturned == \A r \in DOMAIN inflight : inflight[r].phase = "returned"

RECURSIVE SumAccepted(_)
SumAccepted(reqs) ==
  IF Len(reqs) = 0 THEN 0 ELSE Head(reqs).accepted + SumAccepted(Tail(reqs))

\* C29: in every interleaving of the handlers, a request that has returned
\* has counted each of its own events once, as accepted exactly those whose
\* insert the Store performed; and when all have returned the Store holds as
\* many rows as the requests counted accepted.
C29_CountersPerRequest ==
  DOMAIN inflight # {} =>
    /\ \A r \in DOMAIN inflight :
         inflight[r].phase = "returned" =>
           /\ inflight[r].accepted + inflight[r].skipped = Len(inflight[r].batch)
           /\ inflight[r].accepted = Len(inflight[r].rows)
    /\ AllReturned => Len(store) = SumAccepted(inflight)

\* two requests have returned, the insert of the second having come between
\* the two inserts of the first
C29_Witness ==
  /\ Len(inflight) >= 2
  /\ inflight[1].phase = "returned" /\ inflight[2].phase = "returned"
  /\ inflight[1].accepted = 2 /\ inflight[1].skipped = 1
  /\ inflight[2].accepted = 1 /\ inflight[2].skipped = 0
  /\ Len(store) >= 3
  /\ SubSeq(store, 1, 3) = <<inflight[1].rows[1], inflight[2].rows[1], inflight[1].rows[2]>>
  /\ Cardinality({store[1], store[2], store[3]}) = 3

\* the visitor names a result of dbReadStats carries in its lists
StudentsOf(body) ==
  LET Names(list) == {list[k].student : k \in DOMAIN list}
  IN  Names(body.sessionsRecent) \cup Names(body.sessions.successTop)
        \cup Names(body.sessions.frustratedTop)

\* C30: no list of a result of dbReadStats names a visitor by the full anon
\* of a stored event; a visitor is named by 'Student #' and the last 6
\* characters of the anon at most.
C30_NoFullAnon ==
  FromStore =>
    \A name \in StudentsOf(stats.body) :
      /\ \A i \in DOMAIN store : name # store[i].anon
      /\ Len(name) < AnonLen
====
